---- MODULE Spec2Model ----
(***************************************************************************)
(* A model of sr-router's request pipeline: the failover engine            *)
(* (router/failover.go), prompt-suffix injection, the raw-body patch, and  *)
(* the three stream translators of package proxy.                          *)
(*                                                                         *)
(* Go strings that the code edits (system prompts, suffixes) are sequences *)
(* of one-character strings, so that concatenation and TrimSpace are       *)
(* computed and not assumed.  A Go pointer or slice that may be nil is a   *)
(* sequence of length 0 (nil) or 1 (the value).                            *)
(***************************************************************************)
EXTENDS Integers, Sequences, FiniteSets, TLC

VARIABLES
    \* ---- configuration and inputs of one ExecuteWithFailover run
    cfg,             \* config.Config: Models, Failover, Defaults.FallbackModel
    telemetryOn,     \* f.telemetry != nil
    decision,        \* RoutingDecision: Model, Alternatives, Tier
    sys0,            \* the SystemPrompt the engine was called with
    \* ---- locals of ExecuteWithFailover
    req,             \* the by-value ProviderRequest: SystemPrompt, RawAnthropicBody
    originalRawBody, \* failover.go:51
    chain,           \* failover.go:47
    i,               \* loop index over chain, 1-based
    pc,              \* "idle" | "loop" | "done"; "build" | "built" for the chain alone
    ret,             \* the returned triple: resp, model, err
    \* ---- what the run did
    trace,           \* one entry per loop iteration
    closed,          \* chain positions whose response body the engine closed
    failoverRecs,    \* telemetry.RecordFailover calls: <<from, to>>
    \* ---- isRetryableStatus applied to one code
    code, retryable, \* retryable is Nil until the function was applied
    \* ---- one streaming response written by handleMessages
    usedModel,       \* the winning model of the 2xx response
    upstream,        \* the lines of resp.Body, as the scanner splits them
    translator,      \* "" until dispatched
    pos,             \* index of the next upstream line
    out,             \* what was written to the client, in order
    flushes,         \* Len(out) at every Flush
    headers,         \* response headers set by sseHeaders
    outputTokens,    \* StreamOllamaToAnthropic's local
    spc,             \* "idle" | "dispatch" | "scan" | "done"
    \* ---- Classify applied to one prompt and header map, repeatedly
    prompt,          \* the prompt text, a sequence of words
    reqHeaders,      \* headers["x-request-type"]: Nil or Ptr(token)
    classifications, \* the Classification of every Classify call so far
    \* ---- Route applied to one Classification, repeatedly
    class,           \* the Classification handed to Route
    decisions,       \* the RoutingDecision of every Route call so far
    \* ---- InjectSuffix and PatchAnthropicRawBody applied to one input
    injectIn,        \* [modelName, systemPrompt]
    injectOut,       \* Nil until InjectSuffix was applied
    patchIn,         \* [rawBody, apiModel, suffix]
    patchOut,        \* Nil until PatchAnthropicRawBody was applied
    \* ---- the caller of ExecuteWithFailover and its cancellation scope
    cancelled,       \* ctx.Done() is closed
    cancelledAt,     \* the loop index at which the cancellation arrived
    inFlightAt,      \* the chain position of the call it interrupted, or 0
    hpc,             \* handleMessages: "call" | "exit"
    callerClosed,    \* chain positions whose response body the handler closed
    \* ---- the requests the messages handler is serving
    served,          \* per request: its input, position, locals and response
    events           \* the rows of the telemetry table routing_events

engineVars == <<cfg, telemetryOn, decision, sys0, req, originalRawBody, chain, i,
                pc, ret, trace, closed, failoverRecs>>
retryVars  == <<code, retryable>>
streamVars == <<usedModel, upstream, translator, pos, out, flushes, headers,
                outputTokens, spc>>
classVars  == <<prompt, reqHeaders, classifications>>
routeVars  == <<class, decisions>>
pureVars   == <<injectIn, injectOut, patchIn, patchOut>>
callerVars == <<cancelled, cancelledAt, inFlightAt, hpc, callerClosed>>
handlerVars == <<served, events>>
otherVars  == <<classVars, routeVars, pureVars, callerVars, handlerVars>>
vars == <<engineVars, retryVars, streamVars, otherVars>>

----------------------------------------------------------------------------
(* Bounds of the model *)

\* longest Alternatives list of a decision handed to the engine
MaxAlts == 1
\* longest Alternatives list and tier chain given to buildChainFromDecision alone
MaxChainAlts == 2
MaxTierChain == 2
\* status codes given to isRetryableStatus: -NegCodes .. MaxCode
NegCodes == 3
MaxCode == 650
\* longest upstream body, in lines
MaxLines == 3

----------------------------------------------------------------------------
(* Strings *)

Nil == <<>>
Ptr(v) == <<v>>

IsSpace(c) == c \in {" ", "\n", "\t"}

RECURSIVE TrimLeft(_)
TrimLeft(s) ==
    IF s = <<>> THEN <<>>
    ELSE IF IsSpace(Head(s)) THEN TrimLeft(Tail(s)) ELSE s

RECURSIVE TrimRight(_)
TrimRight(s) ==
    IF s = <<>> THEN <<>>
    ELSE IF IsSpace(s[Len(s)]) THEN TrimRight(SubSeq(s, 1, Len(s) - 1)) ELSE s

\* strings.TrimSpace
TrimSpace(s) == TrimRight(TrimLeft(s))

\* the separator "\n\n"
Sep == <<"\n", "\n">>

----------------------------------------------------------------------------
(* Configuration *)

\* the zero value of config.Model, which a Go map lookup of a missing key gives
ZeroModel == [Provider |-> "", APIModel |-> "", PromptSuffix |-> Nil]

HasModel(c, name) == name \in DOMAIN c.Models

LookupModel(c, name) == IF HasModel(c, name) THEN c.Models[name] ELSE ZeroModel

GetFailoverChain(c, tier) ==
    IF tier \in DOMAIN c.Failover THEN c.Failover[tier]
    ELSE <<c.FallbackModel>>

\* mutant: the separator is written even ahead of an empty system prompt
InjectSuffixAlwaysSep(c, modelName, systemPrompt) ==
    LET m == LookupModel(c, modelName) IN
    IF ~HasModel(c, modelName) \/ m.PromptSuffix = Nil THEN systemPrompt
    ELSE LET trimmed == TrimSpace(m.PromptSuffix[1]) IN
         IF trimmed = <<>> THEN systemPrompt
         ELSE systemPrompt \o Sep \o trimmed

InjectSuffix(c, modelName, systemPrompt) ==
    LET m == LookupModel(c, modelName) IN
    IF ~HasModel(c, modelName) \/ m.PromptSuffix = Nil THEN systemPrompt
    ELSE LET suffix == TrimSpace(m.PromptSuffix[1]) IN
         IF suffix = <<>> THEN systemPrompt
         ELSE IF systemPrompt = <<>> THEN suffix
         ELSE systemPrompt \o Sep \o suffix

getModelSuffix(c, modelName) ==
    LET m == LookupModel(c, modelName) IN
    IF ~HasModel(c, modelName) \/ m.PromptSuffix = Nil THEN <<>>
    ELSE TrimSpace(m.PromptSuffix[1])

----------------------------------------------------------------------------
(* The raw Vendor-A body.  A body is a record: valid (it unmarshals into a  *)
(* JSON object), model, system and rest (every other top-level field).     *)
(* system is [k, s, blocks] with k one of "absent", "string", "array",     *)
(* "null" (the literal null) and "other" (a number, object or boolean).    *)
(* rest is the sequence of the other fields as the bytes give them, each   *)
(* [key, raw]; raw is the field's JSON text, a sequence of pieces [k, v]:  *)
(* k = "ws" is white space between tokens, k = "punct" a bracket, number   *)
(* or other token, k = "str" a string literal whose text is v, where the   *)
(* text "\\u003c" is the escape that stands for the character "<".         *)
(* A body that is the JSON literal null is outside the inputs: it          *)
(* unmarshals into a nil map and the assignment at classify.go:672 panics. *)

\* json.Marshal of a json.RawMessage: appendCompact with HTML escaping
Compact(raw) ==
    LET kept == SelectSeq(raw, LAMBDA x : x.k # "ws") IN
    [n \in 1..Len(kept) |->
        IF kept[n].k = "str" /\ kept[n].v = "<"
        THEN [k |-> "str", v |-> "\\u003c"] ELSE kept[n]]

\* the keys json.Marshal writes, in its sorted order
SortedKeys == <<"max_tokens", "messages">>

\* json.Unmarshal into map[string]json.RawMessage: of a repeated key the
\* last value is kept
LastRaw(fields, key) ==
    fields[CHOOSE n \in 1..Len(fields) :
              /\ fields[n].key = key
              /\ \A j \in (n + 1)..Len(fields) : fields[j].key # key].raw

\* mutant: the body is rebuilt from a typed request that knows only messages
MarshalFieldsTyped(fields) ==
    LET keys == SelectSeq(SortedKeys, LAMBDA key :
                    key = "messages" /\ \E n \in 1..Len(fields) : fields[n].key = key)
    IN  [n \in 1..Len(keys) |-> [key |-> keys[n], raw |-> Compact(LastRaw(fields, keys[n]))]]

\* json.Marshal of the map: keys come out sorted, values compacted
MarshalFields(fields) ==
    LET keys == SelectSeq(SortedKeys, LAMBDA key :
                    \E n \in 1..Len(fields) : fields[n].key = key)
    IN  [n \in 1..Len(keys) |-> [key |-> keys[n], raw |-> Compact(LastRaw(fields, keys[n]))]]

SysAbsent == [k |-> "absent", s |-> <<>>, blocks |-> <<>>]
SysString(s) == [k |-> "string", s |-> s, blocks |-> <<>>]
SysArray(bs) == [k |-> "array", s |-> <<>>, blocks |-> bs]
TextBlock(t) == [type |-> "text", text |-> t]

\* mutant: the separator is written before the suffix even after an empty
\* string
PatchSystemAlwaysSep(system, suffix) ==
    IF suffix = <<>> THEN system
    ELSE CASE system.k = "absent" -> SysString(suffix)
           [] system.k \in {"string", "null"} -> SysString(system.s \o Sep \o suffix)
           [] system.k = "array" ->
                 SysArray(Append(system.blocks, TextBlock(Sep \o suffix)))
           [] OTHER -> system

\* classify.go:674-705; the literal null unmarshals into a string without
\* error and leaves it empty
PatchSystem(system, suffix) ==
    IF suffix = <<>> THEN system
    ELSE CASE system.k = "absent" -> SysString(suffix)
           [] system.k \in {"string", "null"} ->
                 SysString(IF system.s = <<>> THEN suffix
                           ELSE system.s \o Sep \o suffix)
           [] system.k = "array" ->
                 SysArray(Append(system.blocks, TextBlock(Sep \o suffix)))
           [] OTHER -> system

\* returns [err, body]; body is Nil when err
PatchAnthropicRawBody(rawBody, apiModel, suffix) ==
    IF ~rawBody.valid THEN [err |-> TRUE, body |-> Nil]
    ELSE [err |-> FALSE,
          body |-> Ptr([rawBody EXCEPT !.model = apiModel,
                                       !.system = PatchSystem(@, suffix),
                                       !.rest = MarshalFields(@)])]

----------------------------------------------------------------------------
(* The failover engine *)

Range(s) == {s[k] : k \in 1..Len(s)}

SeqsUpTo(S, n) == UNION {[1..k -> S] : k \in 0..n}

\* the add closure of buildChainFromDecision
add(ch, name) == IF name # "" /\ name \notin Range(ch) THEN Append(ch, name) ELSE ch

RECURSIVE addAll(_, _)
addAll(ch, names) ==
    IF names = <<>> THEN ch ELSE addAll(add(ch, Head(names)), Tail(names))

AltModels(d) == [k \in 1..Len(d.Alternatives) |-> d.Alternatives[k].Model]

\* mutant: the chain without the seen-set
buildChainNoDedup(c, d) ==
    <<d.Model>> \o AltModels(d) \o GetFailoverChain(c, d.Tier) \o <<c.FallbackModel>>

\* mutant: the tier chain ahead of the router's alternatives
buildChainTierFirst(c, d) ==
    add(addAll(addAll(add(<<>>, d.Model), GetFailoverChain(c, d.Tier)),
               AltModels(d)),
        c.FallbackModel)

buildChainFromDecision(c, d) ==
    add(addAll(addAll(add(<<>>, d.Model), AltModels(d)),
               GetFailoverChain(c, d.Tier)),
        c.FallbackModel)

\* mutant: every 4xx and 5xx status is retried
isRetryableStatusAnyError(n) == n >= 400 /\ n < 600

\* mutant: the retryable set without the auth errors
isRetryableStatusNoAuth(n) == n = 429 \/ (n >= 500 /\ n < 600)

isRetryableStatus(n) == n = 401 \/ n = 403 \/ n = 429 \/ (n >= 500 /\ n < 600)

IsSuccess(n) == n >= 200 /\ n < 300

\* mutant: the error names the selected model instead of the tier
ExhaustedErrorModel(d) == <<"all models in ", d.Model, " chain exhausted">>

\* fmt.Errorf("all models in %s chain exhausted", decision.Tier)
ExhaustedError(d) == <<"all models in ", d.Tier, " chain exhausted">>

\* mutant: each attempt patches the body the previous attempt left in req
PrepareRequestIncremental(c, r, orig, modelName) ==
    LET model == LookupModel(c, modelName)
        base == IF Len(r.RawAnthropicBody) > 0 THEN r.RawAnthropicBody ELSE orig
        patched == PatchAnthropicRawBody(base[1], model.APIModel,
                                         getModelSuffix(c, modelName))
    IN  [SystemPrompt |-> InjectSuffix(c, modelName, r.SystemPrompt),
         RawAnthropicBody |->
             IF Len(base) > 0 /\ model.Provider = "anthropic"
             THEN (IF patched.err THEN Nil ELSE patched.body)
             ELSE Nil]

\* mutant: req.RawAnthropicBody is never reset to nil
PrepareRequestKeepRaw(c, r, orig, modelName) ==
    LET model == LookupModel(c, modelName)
        patched == PatchAnthropicRawBody(orig[1], model.APIModel,
                                         getModelSuffix(c, modelName))
    IN  [SystemPrompt |-> InjectSuffix(c, modelName, r.SystemPrompt),
         RawAnthropicBody |->
             IF Len(orig) > 0 /\ model.Provider = "anthropic"
             THEN (IF patched.err THEN r.RawAnthropicBody ELSE patched.body)
             ELSE r.RawAnthropicBody]

\* failover.go:62-79: the request handed to callProvider for modelName
PrepareRequest(c, r, orig, modelName) ==
    LET model == LookupModel(c, modelName)
        patched == PatchAnthropicRawBody(orig[1], model.APIModel,
                                         getModelSuffix(c, modelName))
    IN  [SystemPrompt |-> InjectSuffix(c, modelName, r.SystemPrompt),
         RawAnthropicBody |->
             IF Len(orig) > 0 /\ model.Provider = "anthropic"
             THEN (IF patched.err THEN Nil ELSE patched.body)
             ELSE Nil]

\* callProvider's switch: which adapter sends the request; "none" is the
\* default branch, which returns an error without any backend call
Adapter(model, r) ==
    CASE model.Provider = "anthropic" ->
             IF Len(r.RawAnthropicBody) > 0 THEN "callAnthropicRaw" ELSE "callAnthropic"
      [] model.Provider = "openai_compat" -> "callOpenAICompat"
      [] model.Provider = "ollama" -> "callOllama"
      [] OTHER -> "none"

\* mutant: the Ollama adapter builds its request without the context
UsesContextNotOllama(adapter) ==
    adapter \in {"callAnthropicRaw", "callAnthropic", "callOpenAICompat"}

\* the adapters that build their request with http.NewRequestWithContext(ctx):
\* the HTTP client fails such a call once ctx is done, before or while it runs
UsesContext(adapter) ==
    adapter \in {"callAnthropicRaw", "callAnthropic", "callOpenAICompat", "callOllama"}

\* mutant: a record is emitted for every 2xx response
RecordsFailoverAlways(idx, tel) == tel

\* failover.go:93: i > 0 && f.telemetry != nil, with idx = i + 1
RecordsFailover(idx, tel) == idx > 1 /\ tel

\* mutant: the body is dropped without Close
CloseBodyLeak(bodies, k) == bodies

\* resp.Body.Close() on the response of chain position k
CloseBody(bodies, k) == bodies \cup {k}

\* what a backend can answer
BackendStatus == {200, 204, 400, 401, 404, 429, 503}

NoReturn == [resp |-> Nil, model |-> "", err |-> Nil]

Entry(kind, status, r, adapter) ==
    [pos |-> i, model |-> chain[i], kind |-> kind, status |-> status,
     system |-> r.SystemPrompt, raw |-> r.RawAnthropicBody, adapter |-> adapter]

Begin ==
    /\ pc = "idle"
    /\ chain' = buildChainFromDecision(cfg, decision)
    /\ originalRawBody' = req.RawAnthropicBody
    /\ i' = 1
    /\ pc' = "loop"
    /\ UNCHANGED <<cfg, telemetryOn, decision, sys0, req, ret, trace, closed,
                   failoverRecs, retryVars, streamVars,
                   otherVars>>

InLoop == pc = "loop" /\ i <= Len(chain)

SkipUnknown ==
    /\ InLoop
    /\ ~HasModel(cfg, chain[i])
    /\ trace' = Append(trace, Entry("skipped", 0, req, "none"))
    /\ i' = i + 1
    /\ UNCHANGED <<cfg, telemetryOn, decision, sys0, req, originalRawBody, chain,
                   pc, ret, closed, failoverRecs, retryVars, streamVars,
                   otherVars>>

\* callProvider returns an error before any request is sent
AttemptNoAdapter ==
    /\ InLoop
    /\ HasModel(cfg, chain[i])
    /\ LET r == PrepareRequest(cfg, req, originalRawBody, chain[i]) IN
       /\ Adapter(LookupModel(cfg, chain[i]), r) = "none"
       /\ req' = r
       /\ trace' = Append(trace, Entry("noadapter", 0, r, "none"))
    /\ i' = i + 1
    /\ UNCHANGED <<cfg, telemetryOn, decision, sys0, originalRawBody, chain,
                   pc, ret, closed, failoverRecs, retryVars, streamVars,
                   otherVars>>

\* the HTTP client returns a network-level error
AttemptTransportError ==
    /\ InLoop
    /\ HasModel(cfg, chain[i])
    /\ LET r == PrepareRequest(cfg, req, originalRawBody, chain[i])
           ad == Adapter(LookupModel(cfg, chain[i]), r) IN
       /\ ad # "none"
       /\ req' = r
       /\ trace' = Append(trace, Entry("error", 0, r, ad))
    /\ i' = i + 1
    /\ UNCHANGED <<cfg, telemetryOn, decision, sys0, originalRawBody, chain,
                   pc, ret, closed, failoverRecs, retryVars, streamVars,
                   otherVars>>

AttemptSuccess ==
    /\ InLoop
    /\ HasModel(cfg, chain[i])
    /\ \E st \in BackendStatus :
       LET r == PrepareRequest(cfg, req, originalRawBody, chain[i])
           ad == Adapter(LookupModel(cfg, chain[i]), r) IN
       /\ ad # "none"
       /\ ~(cancelled /\ UsesContext(ad))
       /\ IsSuccess(st)
       /\ req' = r
       /\ trace' = Append(trace, Entry("status", st, r, ad))
       /\ failoverRecs' = IF RecordsFailover(i, telemetryOn)
                          THEN Append(failoverRecs, <<chain[1], chain[i]>>)
                          ELSE failoverRecs
       /\ ret' = [resp |-> Ptr([status |-> st, pos |-> i]), model |-> chain[i],
                  err |-> Nil]
    /\ pc' = "done"
    /\ UNCHANGED <<cfg, telemetryOn, decision, sys0, originalRawBody, chain, i,
                   closed, retryVars, streamVars,
                   otherVars>>

AttemptRetryable ==
    /\ InLoop
    /\ HasModel(cfg, chain[i])
    /\ \E st \in BackendStatus :
       LET r == PrepareRequest(cfg, req, originalRawBody, chain[i])
           ad == Adapter(LookupModel(cfg, chain[i]), r) IN
       /\ ad # "none"
       /\ ~(cancelled /\ UsesContext(ad))
       /\ ~IsSuccess(st)
       /\ isRetryableStatus(st)
       /\ req' = r
       /\ trace' = Append(trace, Entry("status", st, r, ad))
    /\ closed' = CloseBody(closed, i)
    /\ i' = i + 1
    /\ UNCHANGED <<cfg, telemetryOn, decision, sys0, originalRawBody, chain,
                   pc, ret, failoverRecs, retryVars, streamVars,
                   otherVars>>

AttemptNonRetryable ==
    /\ InLoop
    /\ HasModel(cfg, chain[i])
    /\ \E st \in BackendStatus :
       LET r == PrepareRequest(cfg, req, originalRawBody, chain[i])
           ad == Adapter(LookupModel(cfg, chain[i]), r) IN
       /\ ad # "none"
       /\ ~(cancelled /\ UsesContext(ad))
       /\ ~IsSuccess(st)
       /\ ~isRetryableStatus(st)
       /\ req' = r
       /\ trace' = Append(trace, Entry("status", st, r, ad))
       /\ ret' = [resp |-> Ptr([status |-> st, pos |-> i]), model |-> chain[i],
                  err |-> Nil]
    /\ pc' = "done"
    /\ UNCHANGED <<cfg, telemetryOn, decision, sys0, originalRawBody, chain, i,
                   closed, failoverRecs, retryVars, streamVars,
                   otherVars>>

Exhausted ==
    /\ pc = "loop"
    /\ i > Len(chain)
    /\ ret' = [resp |-> Nil, model |-> "", err |-> Ptr(ExhaustedError(decision))]
    /\ pc' = "done"
    /\ UNCHANGED <<cfg, telemetryOn, decision, sys0, req, originalRawBody, chain,
                   i, trace, closed, failoverRecs, retryVars, streamVars,
                   otherVars>>

\* part_001:170-175: the handler returns after an error, and otherwise
\* defers resp.Body.Close(), which runs on every later return
HandlerExit ==
    /\ pc = "done"
    /\ hpc = "call"
    /\ hpc' = "exit"
    /\ callerClosed' = IF ret.err = Nil THEN CloseBody(callerClosed, ret.resp[1].pos)
                       ELSE callerClosed
    /\ UNCHANGED <<engineVars, retryVars, streamVars, classVars, routeVars, pureVars,
                   cancelled, cancelledAt, inFlightAt, handlerVars>>

\* the client disconnects while the engine is between two backend calls
Cancel ==
    /\ ~cancelled
    /\ pc \in {"idle", "loop"}
    /\ cancelled' = TRUE
    /\ cancelledAt' = i
    /\ UNCHANGED <<engineVars, retryVars, streamVars, classVars, routeVars, pureVars,
                   inFlightAt, hpc, callerClosed, handlerVars>>

\* the client disconnects while callProvider waits for the backend of
\* chain[i]: the HTTP client returns the context's error
CancelInFlight ==
    /\ ~cancelled
    /\ InLoop
    /\ HasModel(cfg, chain[i])
    /\ LET r == PrepareRequest(cfg, req, originalRawBody, chain[i])
           ad == Adapter(LookupModel(cfg, chain[i]), r) IN
       /\ ad # "none"
       /\ UsesContext(ad)
       /\ req' = r
       /\ trace' = Append(trace, Entry("error", 0, r, ad))
    /\ cancelled' = TRUE
    /\ cancelledAt' = i
    /\ inFlightAt' = i
    /\ i' = i + 1
    /\ UNCHANGED <<cfg, telemetryOn, decision, sys0, originalRawBody, chain,
                   pc, ret, closed, failoverRecs, retryVars, streamVars,
                   classVars, routeVars, pureVars, hpc, callerClosed,
                   handlerVars>>

----------------------------------------------------------------------------
(* Inputs of the engine runs *)

Space == <<" ">>

\* a: Vendor-A with a suffix that needs trimming; b: OpenAI-compatible with
\* a suffix; c: Ollama without suffix; d: a provider callProvider does not
\* know, with a blank suffix.  "u" is in no catalog.
EngineModels ==
    [a |-> [Provider |-> "anthropic", APIModel |-> "wire-a",
            PromptSuffix |-> Ptr(<<" ", "x", "\n">>)],
     b |-> [Provider |-> "openai_compat", APIModel |-> "wire-b",
            PromptSuffix |-> Ptr(<<"y">>)],
     c |-> [Provider |-> "ollama", APIModel |-> "wire-c", PromptSuffix |-> Nil],
     d |-> [Provider |-> "bogus", APIModel |-> "wire-d",
            PromptSuffix |-> Ptr(Space)]]

EngineCfg ==
    [Models |-> EngineModels,
     Failover |-> [premium |-> <<"b", "a">>],
     FallbackModel |-> "c"]

EngineNames == {"a", "b", "c", "d", "u"}

Tiers == {"premium", "free"}

Alt(n) == [Model |-> n]

Decisions(names, maxAlts) ==
    {[Model |-> m, Alternatives |-> [k \in DOMAIN al |-> Alt(al[k])], Tier |-> t] :
        m \in names, al \in SeqsUpTo(names, maxAlts), t \in Tiers}

ValidBody == [valid |-> TRUE, model |-> "client-model",
              system |-> SysString(<<"p">>),
              rest |-> <<[key |-> "messages",
                          raw |-> <<[k |-> "punct", v |-> "["],
                                    [k |-> "str", v |-> "hi"],
                                    [k |-> "punct", v |-> "]"]>>]>>]
InvalidBody == [valid |-> FALSE, model |-> "", system |-> SysAbsent,
                rest |-> <<>>]

RawBodies == {Nil, Ptr(ValidBody), Ptr(InvalidBody)}

SystemPrompts == {<<>>, <<"p">>}

\* the zero value of Classification
ZeroClassification ==
    [RouteClass |-> "", TaskType |-> "", Tier |-> "", MinQuality |-> 0,
     LatencyBudgetMs |-> 0, RequiredStrengths |-> {}, Confidence |-> 0]

ClassIdle == prompt = <<>> /\ reqHeaders = Nil /\ classifications = <<>>

RouteIdle == class = ZeroClassification /\ decisions = <<>>

PureIdle ==
    /\ injectIn = [modelName |-> "", systemPrompt |-> <<>>]
    /\ injectOut = Nil
    /\ patchIn = [rawBody |-> Nil, apiModel |-> "", suffix |-> <<>>]
    /\ patchOut = Nil

\* the requests the handler serves at the same time
Requests == {1, 2}

\* a fresh http.ResponseWriter: no status line, no header, nothing written
NewWriter == [status |-> 0, ctype |-> "", body |-> <<>>]

\* the locals of one ExecuteWithFailover call before the call is made
NoRun ==
    [chain |-> <<>>, i |-> 1, req |-> [SystemPrompt |-> <<>>, RawAnthropicBody |-> Nil],
     orig |-> Nil, attempts |-> <<>>, ret |-> NoReturn, closed |-> {}, recs |-> <<>>,
     pc |-> "none"]

\* no request is being served in this slot
OffRequest ==
    [in |-> [method |-> "", body |-> "", messages |-> 0, prompt |-> <<>>,
             header |-> Nil, stream |-> FALSE, auth |-> Nil, key |-> Nil,
             answers |-> <<>>],
     hpc |-> "off", authHeader |-> [Authorization |-> Nil, XApiKey |-> Nil],
     classification |-> Nil, decision |-> Nil, run |-> NoRun, tel |-> <<>>,
     w |-> NewWriter]

HandlerIdle == served = [r \in Requests |-> OffRequest] /\ events = {}

\* the handler has called the engine with a live request context
CallerInit ==
    /\ cancelled = FALSE
    /\ cancelledAt = 0
    /\ inFlightAt = 0
    /\ hpc = "call"
    /\ callerClosed = {}

OtherIdle == ClassIdle /\ RouteIdle /\ PureIdle /\ CallerInit /\ HandlerIdle

RetryIdle == code = 0 /\ retryable = Nil

StreamIdle ==
    /\ usedModel = ""
    /\ upstream = <<>>
    /\ translator = ""
    /\ pos = 1
    /\ out = <<>>
    /\ flushes = <<>>
    /\ headers = {}
    /\ outputTokens = 0
    /\ spc = "idle"

\* the engine's locals before any run, whatever the configuration
EngineLocalsIdle ==
    /\ telemetryOn = FALSE
    /\ decision = [Model |-> "", Alternatives |-> <<>>, Tier |-> ""]
    /\ sys0 = <<>>
    /\ req = [SystemPrompt |-> <<>>, RawAnthropicBody |-> Nil]
    /\ originalRawBody = Nil
    /\ chain = <<>>
    /\ i = 1
    /\ pc = "off"
    /\ ret = NoReturn
    /\ trace = <<>>
    /\ closed = {}
    /\ failoverRecs = <<>>

EngineIdle ==
    /\ cfg = EngineCfg
    /\ telemetryOn = FALSE
    /\ decision = [Model |-> "", Alternatives |-> <<>>, Tier |-> ""]
    /\ sys0 = <<>>
    /\ req = [SystemPrompt |-> <<>>, RawAnthropicBody |-> Nil]
    /\ originalRawBody = Nil
    /\ chain = <<>>
    /\ i = 1
    /\ pc = "off"
    /\ ret = NoReturn
    /\ trace = <<>>
    /\ closed = {}
    /\ failoverRecs = <<>>

Init ==
    /\ cfg = EngineCfg
    /\ telemetryOn \in BOOLEAN
    /\ decision \in Decisions(EngineNames, MaxAlts)
    /\ sys0 \in SystemPrompts
    /\ \E raw \in RawBodies : req = [SystemPrompt |-> sys0, RawAnthropicBody |-> raw]
    /\ originalRawBody = Nil
    /\ chain = <<>>
    /\ i = 1
    /\ pc = "idle"
    /\ ret = NoReturn
    /\ trace = <<>>
    /\ closed = {}
    /\ failoverRecs = <<>>
    /\ RetryIdle
    /\ StreamIdle
    /\ OtherIdle


----------------------------------------------------------------------------
(* isRetryableStatus alone *)

StatusCodes == (0 - NegCodes)..MaxCode

RetryInit ==
    /\ code \in StatusCodes
    /\ retryable = Nil
    /\ EngineIdle
    /\ StreamIdle
    /\ OtherIdle

ClassifyStatus ==
    /\ retryable = Nil
    /\ retryable' = Ptr(isRetryableStatus(code))
    /\ UNCHANGED <<code, engineVars, streamVars, otherVars>>

RetryNext == ClassifyStatus

SpecRetry == RetryInit /\ [][RetryNext]_vars

----------------------------------------------------------------------------
(* buildChainFromDecision alone, over every small configuration *)

ChainNames == {"a", "b", "c", ""}

ChainCfgs ==
    {[Models |-> EngineModels, Failover |-> [premium |-> tc], FallbackModel |-> fb] :
        tc \in SeqsUpTo(ChainNames, MaxTierChain), fb \in ChainNames}

ChainInit ==
    /\ cfg \in ChainCfgs
    /\ decision \in Decisions(ChainNames, MaxChainAlts)
    /\ telemetryOn = FALSE
    /\ sys0 = <<>>
    /\ req = [SystemPrompt |-> <<>>, RawAnthropicBody |-> Nil]
    /\ originalRawBody = Nil
    /\ chain = <<>>
    /\ i = 1
    /\ pc = "build"
    /\ ret = NoReturn
    /\ trace = <<>>
    /\ closed = {}
    /\ failoverRecs = <<>>
    /\ RetryIdle
    /\ StreamIdle
    /\ OtherIdle

BuildChain ==
    /\ pc = "build"
    /\ chain' = buildChainFromDecision(cfg, decision)
    /\ pc' = "built"
    /\ UNCHANGED <<cfg, telemetryOn, decision, sys0, req, originalRawBody, i, ret,
                   trace, closed, failoverRecs, retryVars, streamVars,
                   otherVars>>

ChainNext == BuildChain

SpecChain == ChainInit /\ [][ChainNext]_vars

Next ==
    \/ Begin
    \/ SkipUnknown
    \/ AttemptNoAdapter
    \/ AttemptTransportError
    \/ AttemptSuccess
    \/ AttemptRetryable
    \/ AttemptNonRetryable
    \/ Exhausted
    \/ HandlerExit

Spec == Init /\ [][Next]_vars

----------------------------------------------------------------------------
(* The engine under cancellation of the request's context.  Once the       *)
(* context is done every backend call returns, so the loop's steps are     *)
(* taken; before that a call may wait for its backend without limit        *)
(* (http.DefaultClient has no timeout) and nothing is assumed.             *)

CancelInit ==
    /\ cfg = EngineCfg
    /\ telemetryOn = FALSE
    /\ decision \in Decisions(EngineNames, MaxAlts)
    /\ sys0 = <<>>
    /\ req = [SystemPrompt |-> sys0, RawAnthropicBody |-> Nil]
    /\ originalRawBody = Nil
    /\ chain = <<>>
    /\ i = 1
    /\ pc = "idle"
    /\ ret = NoReturn
    /\ trace = <<>>
    /\ closed = {}
    /\ failoverRecs = <<>>
    /\ RetryIdle
    /\ StreamIdle
    /\ OtherIdle

EngineStep ==
    \/ Begin
    \/ SkipUnknown
    \/ AttemptNoAdapter
    \/ AttemptTransportError
    \/ AttemptSuccess
    \/ AttemptRetryable
    \/ AttemptNonRetryable
    \/ Exhausted

CancelNext ==
    \/ Begin
    \/ SkipUnknown
    \/ AttemptNoAdapter
    \/ AttemptTransportError
    \/ AttemptSuccess
    \/ AttemptRetryable
    \/ AttemptNonRetryable
    \/ Exhausted
    \/ HandlerExit
    \/ Cancel
    \/ CancelInFlight

SpecCancel ==
    CancelInit /\ [][CancelNext]_vars /\ WF_vars(cancelled /\ EngineStep)

----------------------------------------------------------------------------
(* Upstream lines.  A line is what bufio.Scanner's ScanLines yields: the   *)
(* text between two line ends.  pre is what the line begins with ("data:", *)
(* "event:" or neither); body says what follows the prefix once trimmed:   *)
(* "empty", "[DONE]", "json" (syntactically a JSON object) or "text"       *)
(* (anything else); typeErr says that a field of the JSON object has a     *)
(* type the chunk struct cannot take; choices, content, done and eval are  *)
(* the fields the two chunk structs read; name is the event of an          *)
(* "event:" line; long says that the line does not fit the scanner's       *)
(* buffer (bufio.MaxScanTokenSize, 64 KiB: the code sets no larger one).   *)

Line(pre, body, typeErr, choices, content, done, eval, name, long) ==
    [pre |-> pre, body |-> body, typeErr |-> typeErr, choices |-> choices,
     content |-> content, done |-> done, eval |-> eval, name |-> name, long |-> long]

Blank       == Line("", "empty", FALSE, <<>>, "", FALSE, 0, "", FALSE)
EventLine(n) == Line("event:", "text", FALSE, <<>>, "", FALSE, 0, n, FALSE)
Comment     == Line("", "text", FALSE, <<>>, "", FALSE, 0, "", FALSE)
DataDone    == Line("data:", "[DONE]", FALSE, <<>>, "", FALSE, 0, "", FALSE)
DataChunk(cs) == Line("data:", "json", FALSE, cs, "", FALSE, 0, "", FALSE)
DataBad     == Line("data:", "text", FALSE, <<>>, "", FALSE, 0, "", FALSE)
DataTypeErr == Line("data:", "json", TRUE, <<"x">>, "", FALSE, 0, "", FALSE)
DataLong    == Line("data:", "json", FALSE, <<"big">>, "", FALSE, 0, "", TRUE)
Obj(content, done, eval) == Line("", "json", FALSE, <<>>, content, done, eval, "", FALSE)
ObjTypeErr  == Line("", "json", TRUE, <<>>, "x", FALSE, 0, "", FALSE)
ObjLong     == Line("", "json", FALSE, <<>>, "big", FALSE, 0, "", TRUE)

\* what an OpenAI-compatible, an Ollama and a Vendor-A upstream may send
OpenAILines ==
    {Blank, EventLine("ping"), DataDone, DataChunk(<<"Hello">>),
     DataChunk(<<"", " world">>), DataBad, DataTypeErr, DataLong,
     Obj("Hi", FALSE, 0)}

OllamaLines ==
    {Blank, Obj("Hello", FALSE, 0), Obj("", FALSE, 0), Obj("", TRUE, 42),
     Obj("bye", TRUE, 7), Comment, ObjTypeErr, ObjLong, DataChunk(<<"Hello">>)}

AnthropicLines ==
    {Blank, EventLine("message_start"), EventLine("content_block_start"),
     EventLine("message_stop"), DataChunk(<<>>), Comment, DataLong}

UpstreamLines(provider) ==
    CASE provider = "openai_compat" -> OpenAILines
      [] provider = "ollama" -> OllamaLines
      [] OTHER -> AnthropicLines

\* strings.HasPrefix(line, "data:")
HasDataPrefix(line) == line.pre = "data:"

\* line == ""
IsEmptyLine(line) == line.pre = "" /\ line.body = "empty"

\* strings.TrimSpace(strings.TrimPrefix(line, "data:")) == "[DONE]"
IsDonePayload(line) == line.body = "[DONE]"

\* json.Unmarshal of the payload of a data line into openAIChunk: [err, choices]
UnmarshalOpenAI(line) ==
    IF line.body # "json" THEN [err |-> TRUE, choices |-> <<>>]
    ELSE [err |-> line.typeErr, choices |-> line.choices]

\* json.Unmarshal of a whole line into ollamaChunk: [err, content, done, eval]
UnmarshalOllama(line) ==
    IF line.pre # "" \/ line.body # "json"
    THEN [err |-> TRUE, content |-> "", done |-> FALSE, eval |-> 0]
    ELSE [err |-> line.typeErr, content |-> line.content, done |-> line.done,
          eval |-> line.eval]

----------------------------------------------------------------------------
(* The stream translators.  The client connection is [out, flushes]: the   *)
(* items written, and the length of out at every Flush.  The writer of the *)
(* HTTP server and of the tests is an http.Flusher, so the translators'    *)
(* "streaming not supported" return is not reached.                        *)

Event(name, text, tokens, model) ==
    [kind |-> "event", name |-> name, text |-> text, tokens |-> tokens,
     model |-> model, line |-> Blank]

Copied(line) ==
    [kind |-> "line", name |-> "", text |-> "", tokens |-> 0, model |-> "",
     line |-> line]

Flush(w) == [w EXCEPT !.flushes = Append(@, Len(w.out))]

writeSSEEvent(w, ev) == Flush([w EXCEPT !.out = Append(@, ev)])

sseHeaders ==
    {<<"Content-Type", "text/event-stream">>, <<"Cache-Control", "no-cache">>,
     <<"Connection", "keep-alive">>}

emitPreamble(w, model) ==
    writeSSEEvent(writeSSEEvent(w, Event("message_start", "", 0, model)),
                  Event("content_block_start", "", 0, ""))

\* mutant: message_stop is not written
emitEpilogueNoStop(w, tokens) ==
    writeSSEEvent(writeSSEEvent(w, Event("content_block_stop", "", 0, "")),
                  Event("message_delta", "end_turn", tokens, ""))

emitEpilogue(w, tokens) ==
    writeSSEEvent(
        writeSSEEvent(writeSSEEvent(w, Event("content_block_stop", "", 0, "")),
                      Event("message_delta", "end_turn", tokens, "")),
        Event("message_stop", "", 0, ""))

\* the deltas of one OpenAI chunk: one per choice with non-empty content
RECURSIVE writeChoices(_, _)
writeChoices(w, choices) ==
    IF choices = <<>> THEN w
    ELSE writeChoices(IF Head(choices) = "" THEN w
                      ELSE writeSSEEvent(w, Event("content_block_delta",
                                                  Head(choices), 0, "")),
                      Tail(choices))

\* mutant: the Ollama case is missing and falls to the default
StreamDispatchNoOllama(provider) ==
    CASE provider = "anthropic" -> "StreamAnthropicPassthrough"
      [] provider = "openai_compat" -> "StreamOpenAIToAnthropic"
      [] OTHER -> "StreamAnthropicPassthrough"

\* handleMessages, step 9: the translator for the winning model's provider
StreamDispatch(provider) ==
    CASE provider = "anthropic" -> "StreamAnthropicPassthrough"
      [] provider = "openai_compat" -> "StreamOpenAIToAnthropic"
      [] provider = "ollama" -> "StreamOllamaToAnthropic"
      [] OTHER -> "StreamAnthropicPassthrough"

W == [out |-> out, flushes |-> flushes]

SetW(w) == out' = w.out /\ flushes' = w.flushes

\* scanner.Scan() yields the next line: there is one and it fits the buffer
CanScan == pos <= Len(upstream) /\ ~upstream[pos].long

Scanning(t) == spc = "scan" /\ translator = t

\* the handler picks the translator, which sets the headers and, unless it
\* is the passthrough, writes the preamble
Dispatch ==
    /\ spc = "dispatch"
    /\ LET t == StreamDispatch(LookupModel(cfg, usedModel).Provider) IN
       /\ translator' = t
       /\ SetW(IF t = "StreamAnthropicPassthrough" THEN W
               ELSE emitPreamble(W, usedModel))
    /\ headers' = sseHeaders
    /\ spc' = "scan"
    /\ UNCHANGED <<usedModel, upstream, pos, outputTokens, engineVars, retryVars, otherVars>>

PassthroughLine ==
    /\ Scanning("StreamAnthropicPassthrough")
    /\ CanScan
    /\ LET line == upstream[pos]
           w == [W EXCEPT !.out = Append(@, Copied(line))] IN
       SetW(IF HasDataPrefix(line) THEN Flush(w) ELSE w)
    /\ pos' = pos + 1
    /\ UNCHANGED <<usedModel, upstream, translator, headers, outputTokens, spc,
                   engineVars, retryVars, otherVars>>

PassthroughEnd ==
    /\ Scanning("StreamAnthropicPassthrough")
    /\ ~CanScan
    /\ SetW(Flush(W))
    /\ spc' = "done"
    /\ UNCHANGED <<usedModel, upstream, translator, pos, headers, outputTokens,
                   engineVars, retryVars, otherVars>>

OpenAISkipNonData ==
    /\ Scanning("StreamOpenAIToAnthropic")
    /\ CanScan
    /\ ~HasDataPrefix(upstream[pos])
    /\ pos' = pos + 1
    /\ UNCHANGED <<usedModel, upstream, translator, out, flushes, headers,
                   outputTokens, spc, engineVars, retryVars, otherVars>>

OpenAIDone ==
    /\ Scanning("StreamOpenAIToAnthropic")
    /\ CanScan
    /\ HasDataPrefix(upstream[pos])
    /\ IsDonePayload(upstream[pos])
    /\ SetW(emitEpilogue(W, 0))
    /\ spc' = "done"
    /\ UNCHANGED <<usedModel, upstream, translator, pos, headers, outputTokens,
                   engineVars, retryVars, otherVars>>

OpenAIMalformed ==
    /\ Scanning("StreamOpenAIToAnthropic")
    /\ CanScan
    /\ HasDataPrefix(upstream[pos])
    /\ ~IsDonePayload(upstream[pos])
    /\ UnmarshalOpenAI(upstream[pos]).err
    /\ pos' = pos + 1
    /\ UNCHANGED <<usedModel, upstream, translator, out, flushes, headers,
                   outputTokens, spc, engineVars, retryVars, otherVars>>

OpenAIChunk ==
    /\ Scanning("StreamOpenAIToAnthropic")
    /\ CanScan
    /\ HasDataPrefix(upstream[pos])
    /\ ~IsDonePayload(upstream[pos])
    /\ LET chunk == UnmarshalOpenAI(upstream[pos]) IN
       /\ ~chunk.err
       /\ SetW(writeChoices(W, chunk.choices))
    /\ pos' = pos + 1
    /\ UNCHANGED <<usedModel, upstream, translator, headers, outputTokens, spc,
                   engineVars, retryVars, otherVars>>

OpenAIEnd ==
    /\ Scanning("StreamOpenAIToAnthropic")
    /\ ~CanScan
    /\ SetW(emitEpilogue(W, 0))
    /\ spc' = "done"
    /\ UNCHANGED <<usedModel, upstream, translator, pos, headers, outputTokens,
                   engineVars, retryVars, otherVars>>

OllamaSkipEmpty ==
    /\ Scanning("StreamOllamaToAnthropic")
    /\ CanScan
    /\ IsEmptyLine(upstream[pos])
    /\ pos' = pos + 1
    /\ UNCHANGED <<usedModel, upstream, translator, out, flushes, headers,
                   outputTokens, spc, engineVars, retryVars, otherVars>>

OllamaMalformed ==
    /\ Scanning("StreamOllamaToAnthropic")
    /\ CanScan
    /\ ~IsEmptyLine(upstream[pos])
    /\ UnmarshalOllama(upstream[pos]).err
    /\ pos' = pos + 1
    /\ UNCHANGED <<usedModel, upstream, translator, out, flushes, headers,
                   outputTokens, spc, engineVars, retryVars, otherVars>>

OllamaDone ==
    /\ Scanning("StreamOllamaToAnthropic")
    /\ CanScan
    /\ ~IsEmptyLine(upstream[pos])
    /\ LET chunk == UnmarshalOllama(upstream[pos]) IN
       /\ ~chunk.err
       /\ chunk.done
       /\ outputTokens' = chunk.eval
       /\ SetW(emitEpilogue(W, chunk.eval))
    /\ spc' = "done"
    /\ UNCHANGED <<usedModel, upstream, translator, pos, headers, engineVars,
                   retryVars, otherVars>>

OllamaChunk ==
    /\ Scanning("StreamOllamaToAnthropic")
    /\ CanScan
    /\ ~IsEmptyLine(upstream[pos])
    /\ LET chunk == UnmarshalOllama(upstream[pos]) IN
       /\ ~chunk.err
       /\ ~chunk.done
       /\ SetW(IF chunk.content # ""
               THEN writeSSEEvent(W, Event("content_block_delta", chunk.content, 0, ""))
               ELSE W)
    /\ pos' = pos + 1
    /\ UNCHANGED <<usedModel, upstream, translator, headers, outputTokens, spc,
                   engineVars, retryVars, otherVars>>

OllamaEnd ==
    /\ Scanning("StreamOllamaToAnthropic")
    /\ ~CanScan
    /\ SetW(emitEpilogue(W, outputTokens))
    /\ spc' = "done"
    /\ UNCHANGED <<usedModel, upstream, translator, pos, headers, outputTokens,
                   engineVars, retryVars, otherVars>>

\* the models whose adapter can return a response
StreamModels == {n \in DOMAIN EngineModels :
                    EngineModels[n].Provider \in {"anthropic", "openai_compat", "ollama"}}

StreamInit ==
    /\ usedModel \in StreamModels
    /\ upstream \in SeqsUpTo(UpstreamLines(EngineModels[usedModel].Provider), MaxLines)
    /\ translator = ""
    /\ pos = 1
    /\ out = <<>>
    /\ flushes = <<>>
    /\ headers = {}
    /\ outputTokens = 0
    /\ spc = "dispatch"
    /\ EngineIdle
    /\ RetryIdle
    /\ OtherIdle

StreamNext ==
    \/ Dispatch
    \/ PassthroughLine
    \/ PassthroughEnd
    \/ OpenAISkipNonData
    \/ OpenAIDone
    \/ OpenAIMalformed
    \/ OpenAIChunk
    \/ OpenAIEnd
    \/ OllamaSkipEmpty
    \/ OllamaMalformed
    \/ OllamaDone
    \/ OllamaChunk
    \/ OllamaEnd

SpecStream == StreamInit /\ [][StreamNext]_vars

----------------------------------------------------------------------------
(* The classifier (router/classify.go).  A prompt is a sequence of words;  *)
(* a pattern is one word, which matches a prompt that contains it in any   *)
(* letter case ("(?i)" + p); the pattern "(" does not compile and the     *)
(* pattern ".*" matches every prompt, the empty one included.  A header    *)
(* rule and a header token are sequences of characters.  Qualities and     *)
(* confidences are in hundredths.  RequiredStrengths, which the code only  *)
(* tests for membership, is a set.  Go leaves the order of a range over a  *)
(* map open: every range is given the order it happens to take.            *)

\* longest prompt, in words
MaxWords == 2
\* calls of Classify, and of Route, on the same input
MaxCalls == 2

\* the orders a range over a map with key set S can take
Perms(S) == {f \in [1..Cardinality(S) -> S] : Range(f) = S}

\* strings.Contains
Contains(h, sub) ==
    \E k \in 0..(Len(h) - Len(sub)) : SubSeq(h, k + 1, k + Len(sub)) = sub

Lower(w) == IF w = "FIX" THEN "fix" ELSE w

\* regexp.Compile succeeds
Compiles(p) == p # "("

\* re.MatchString(prompt) for the compiled "(?i)" + p
MatchString(p, text) ==
    \/ p = ".*"
    \/ \E k \in 1..Len(text) : Lower(text[k]) = Lower(p)

\* the zero value of config.RouteClass
ZeroRouteClass ==
    [Headers |-> <<>>, ContentPatterns |-> <<>>, DefaultTier |-> "",
     LatencyBudgetMs |-> 0, QualityFloor |-> 0]

LookupRouteClass(c, name) ==
    IF name \in DOMAIN c.RouteClasses THEN c.RouteClasses[name] ELSE ZeroRouteClass

\* mutant: the first pattern that does not compile ends the list
CompiledUntilInvalid(patterns) ==
    IF \A k \in 1..Len(patterns) : Compiles(patterns[k]) THEN patterns
    ELSE SubSeq(patterns, 1,
                (CHOOSE k \in 1..Len(patterns) :
                    /\ ~Compiles(patterns[k])
                    /\ \A j \in 1..(k - 1) : Compiles(patterns[j])) - 1)

\* NewClassifier: the patterns that compile, in configuration order
Compiled(patterns) == SelectSeq(patterns, Compiles)

\* the keys of c.taskPatterns: an entry exists once a pattern compiled
TaskPatternNames(c) ==
    {name \in DOMAIN c.Tasks : Compiled(c.Tasks[name].Patterns) # <<>>}

\* the first name of order that is in hits, Nil when there is none
FirstMatch(order, hits) ==
    IF \E k \in 1..Len(order) : order[k] \in hits
    THEN Ptr(order[CHOOSE k \in 1..Len(order) :
                       /\ order[k] \in hits
                       /\ \A j \in 1..(k - 1) : order[j] \notin hits])
    ELSE Nil

HeaderHit(c, name, rt) ==
    \E k \in 1..Len(c.RouteClasses[name].Headers) :
        Contains(c.RouteClasses[name].Headers[k], rt)

ContentHit(c, name, text) ==
    \E k \in 1..Len(Compiled(c.RouteClasses[name].ContentPatterns)) :
        MatchString(Compiled(c.RouteClasses[name].ContentPatterns)[k], text)

\* mutant: content patterns are consulted before the header
detectRouteClassContentFirst(c, text, h, hdrOrder, patOrder) ==
    LET names == DOMAIN c.RouteClasses
        byHeader == IF h = Nil THEN Nil
                    ELSE FirstMatch(hdrOrder, {n \in names : HeaderHit(c, n, h[1])})
        byContent == FirstMatch(patOrder, {n \in names : ContentHit(c, n, text)})
    IN  IF byContent # Nil THEN byContent[1]
        ELSE IF byHeader # Nil THEN byHeader[1]
        ELSE "interactive"

\* hdrOrder and patOrder are the orders of the two ranges over the classes
detectRouteClass(c, text, h, hdrOrder, patOrder) ==
    LET names == DOMAIN c.RouteClasses
        byHeader == IF h = Nil THEN Nil
                    ELSE FirstMatch(hdrOrder, {n \in names : HeaderHit(c, n, h[1])})
        byContent == FirstMatch(patOrder, {n \in names : ContentHit(c, n, text)})
    IN  IF byHeader # Nil THEN byHeader[1]
        ELSE IF byContent # Nil THEN byContent[1]
        ELSE "interactive"

\* the count of one task's compiled patterns that match
HitCount(c, name, text) ==
    Cardinality({k \in 1..Len(Compiled(c.Tasks[name].Patterns)) :
                    MatchString(Compiled(c.Tasks[name].Patterns)[k], text)})

RECURSIVE scanTasks(_, _, _, _)
scanTasks(c, text, order, best) ==
    IF order = <<>> THEN best
    ELSE LET name == Head(order)
             count == HitCount(c, name, text)
         IN  scanTasks(c, text, Tail(order),
                       IF count > best.count
                       THEN [type |-> name, count |-> count,
                             strengths |-> c.Tasks[name].RequiredStrengths]
                       ELSE best)

\* mutant: the first task of the range with a hit wins, whatever its count
detectTaskTypeAnyHit(c, text, taskOrder) ==
    LET hit == FirstMatch(taskOrder,
                          {n \in DOMAIN c.Tasks : HitCount(c, n, text) > 0})
        count == IF hit = Nil THEN 0 ELSE HitCount(c, hit[1], text)
    IN  [type |-> IF hit = Nil THEN "chat" ELSE hit[1], count |-> count,
         strengths |-> IF hit = Nil THEN {} ELSE c.Tasks[hit[1]].RequiredStrengths,
         confidence |-> IF count >= 2 THEN 85
                        ELSE IF count = 1 THEN 70 ELSE 50]

\* returns [type, count, strengths, confidence]
detectTaskType(c, text, taskOrder) ==
    LET best == scanTasks(c, text, taskOrder,
                          [type |-> "chat", count |-> 0, strengths |-> {}])
    IN  [type |-> best.type, count |-> best.count, strengths |-> best.strengths,
         confidence |-> IF best.count >= 2 THEN 85
                        ELSE IF best.count = 1 THEN 70 ELSE 50]

\* mutant: the larger of the route class's floor and the task's minimum
ClassifyMaxFloor(c, text, h, hdrOrder, patOrder, taskOrder) ==
    LET routeClass == detectRouteClass(c, text, h, hdrOrder, patOrder)
        t == detectTaskType(c, text, taskOrder)
        rc == LookupRouteClass(c, routeClass)
        taskMin == IF t.type \in DOMAIN c.Tasks THEN c.Tasks[t.type].MinQuality ELSE 0
    IN  [RouteClass |-> routeClass, TaskType |-> t.type, Tier |-> rc.DefaultTier,
         MinQuality |-> IF taskMin > rc.QualityFloor THEN taskMin ELSE rc.QualityFloor,
         LatencyBudgetMs |-> rc.LatencyBudgetMs,
         RequiredStrengths |-> t.strengths, Confidence |-> t.confidence]

\* mutant: tier and latency budget of the default class, whichever class
\* was detected
ClassifyDefaultClassTier(c, text, h, hdrOrder, patOrder, taskOrder) ==
    LET routeClass == detectRouteClass(c, text, h, hdrOrder, patOrder)
        t == detectTaskType(c, text, taskOrder)
        rc == LookupRouteClass(c, routeClass)
        dc == LookupRouteClass(c, "interactive")
    IN  [RouteClass |-> routeClass, TaskType |-> t.type, Tier |-> dc.DefaultTier,
         MinQuality |-> IF t.type \in DOMAIN c.Tasks
                        THEN c.Tasks[t.type].MinQuality
                        ELSE rc.QualityFloor,
         LatencyBudgetMs |-> dc.LatencyBudgetMs,
         RequiredStrengths |-> t.strengths, Confidence |-> t.confidence]

Classify(c, text, h, hdrOrder, patOrder, taskOrder) ==
    LET routeClass == detectRouteClass(c, text, h, hdrOrder, patOrder)
        t == detectTaskType(c, text, taskOrder)
        rc == LookupRouteClass(c, routeClass)
    IN  [RouteClass |-> routeClass, TaskType |-> t.type, Tier |-> rc.DefaultTier,
         MinQuality |-> IF t.type \in DOMAIN c.Tasks
                        THEN c.Tasks[t.type].MinQuality
                        ELSE rc.QualityFloor,
         LatencyBudgetMs |-> rc.LatencyBudgetMs,
         RequiredStrengths |-> t.strengths, Confidence |-> t.confidence]

(* Inputs of the classifier runs *)

\* "bg" and "cg" share the token "g"; "batch" is a content pattern of two
\* classes; one pattern of compaction does not compile
RouteClasses2 ==
    [background |->
        [Headers |-> << <<"b", "g">> >>, ContentPatterns |-> <<"batch">>,
         DefaultTier |-> "budget", LatencyBudgetMs |-> 30000, QualityFloor |-> 55],
     compaction |->
        [Headers |-> << <<"c", "g">> >>, ContentPatterns |-> <<"(", "sum", "batch">>,
         DefaultTier |-> "speed", LatencyBudgetMs |-> 5000, QualityFloor |-> 50]]

RouteClasses3 ==
    [interactive |->
        [Headers |-> << <<"i">> >>, ContentPatterns |-> <<>>,
         DefaultTier |-> "premium", LatencyBudgetMs |-> 2000, QualityFloor |-> 85],
     background |-> RouteClasses2.background,
     compaction |-> RouteClasses2.compaction]

TasksNoChat ==
    [code |-> [Patterns |-> <<"fix", "(", "batch">>, RequiredStrengths |-> {"code"},
               MinQuality |-> 80],
     summarization |-> [Patterns |-> <<"sum", "batch">>, RequiredStrengths |-> {},
                        MinQuality |-> 50]]

\* the shipped tasks.yaml defines a task named chat
TasksWithChat ==
    [code |-> TasksNoChat.code,
     summarization |-> TasksNoChat.summarization,
     chat |-> [Patterns |-> <<"explain">>, RequiredStrengths |-> {},
               MinQuality |-> 70]]

ClassifierCfgs ==
    {[RouteClasses |-> rcs, Tasks |-> ts] :
        rcs \in {RouteClasses2, RouteClasses3}, ts \in {TasksNoChat, TasksWithChat}}

\* "FIX" is matched by the pattern "fix"; "hello" is matched by no pattern
Words == {"FIX", "sum", "batch", "hello", "explain"}

\* the empty token, a fragment of one rule, a fragment of two, one of none
HeaderTokens == {<<>>, <<"b">>, <<"g">>, <<"z">>}

HeaderInputs == {Nil} \cup {Ptr(t) : t \in HeaderTokens}

ClassifyInit ==
    /\ cfg \in ClassifierCfgs
    /\ prompt \in SeqsUpTo(Words, MaxWords)
    /\ reqHeaders \in HeaderInputs
    /\ classifications = <<>>
    /\ EngineLocalsIdle
    /\ RetryIdle
    /\ StreamIdle
    /\ RouteIdle
    /\ PureIdle
    /\ CallerInit
    /\ HandlerIdle

ClassifyCall ==
    /\ Len(classifications) < MaxCalls
    /\ \E hdrOrder \in Perms(DOMAIN cfg.RouteClasses),
          patOrder \in Perms(DOMAIN cfg.RouteClasses),
          taskOrder \in Perms(TaskPatternNames(cfg)) :
          classifications' =
              Append(classifications,
                     Classify(cfg, prompt, reqHeaders, hdrOrder, patOrder, taskOrder))
    /\ UNCHANGED <<prompt, reqHeaders, engineVars, retryVars, streamVars,
                   routeVars, pureVars, callerVars, handlerVars>>

ClassifyNext == ClassifyCall

SpecClassify == ClassifyInit /\ [][ClassifyNext]_vars

(* The classifier without headers, over configurations some of whose       *)
(* patterns match every prompt                                             *)

\* background has a content pattern that matches every prompt
RouteClassesCatchAll ==
    [interactive |-> RouteClasses3.interactive,
     background |->
        [Headers |-> << <<"b", "g">> >>, ContentPatterns |-> <<"(", ".*">>,
         DefaultTier |-> "budget", LatencyBudgetMs |-> 30000, QualityFloor |-> 55]]

\* code has a pattern that matches every prompt
TasksCatchAll ==
    [code |-> [Patterns |-> <<"(", ".*", "batch">>, RequiredStrengths |-> {"code"},
               MinQuality |-> 80],
     summarization |-> TasksNoChat.summarization]

AnyCfgs ==
    {[RouteClasses |-> rcs, Tasks |-> ts] :
        rcs \in {RouteClasses2, RouteClasses3, RouteClassesCatchAll},
        ts \in {TasksNoChat, TasksWithChat, TasksCatchAll}}

PlainWords == {"sum", "batch", "hello"}

NoHeaderInit ==
    /\ cfg \in AnyCfgs
    /\ prompt \in SeqsUpTo(PlainWords, MaxWords)
    /\ reqHeaders = Nil
    /\ classifications = <<>>
    /\ EngineLocalsIdle
    /\ RetryIdle
    /\ StreamIdle
    /\ RouteIdle
    /\ PureIdle
    /\ CallerInit
    /\ HandlerIdle

SpecNoHeader == NoHeaderInit /\ [][ClassifyNext]_vars

----------------------------------------------------------------------------
(* The router (router/route.go).  Costs are whole units, quality ceilings  *)
(* are in hundredths and the two weights are whole numbers, so a score is  *)
(* weight units times hundredths; the inputs are chosen so that the        *)
(* division cost/maxCost is exact.  Strength lists, which the code only    *)
(* tests for membership, are sets.                                         *)

\* Go's < on the model identifiers used here, all one letter long
NameLess(x, y) ==
    LET rank == [a |-> 1, b |-> 2, c |-> 3, d |-> 4] IN rank[x] < rank[y]

\* mutant: one required strength is enough
hasStrengthsAny(modelStrengths, required) ==
    required = {} \/ \E r \in required : r \in modelStrengths

hasStrengths(modelStrengths, required) ==
    required = {} \/ \A r \in required : r \in modelStrengths

\* mutant: the comparison without the tie-break on the name
lessByScoreOnly(x, y) == x.score > y.score

\* the less function handed to sort.Slice
less(x, y) ==
    IF x.score # y.score THEN x.score > y.score ELSE NameLess(x.name, y.name)

\* sort.Slice: x is placed ahead of the first element it is less than
RECURSIVE Insert(_, _)
Insert(sorted, x) ==
    IF sorted = <<>> THEN <<x>>
    ELSE IF less(x, Head(sorted)) THEN <<x>> \o sorted
    ELSE <<Head(sorted)>> \o Insert(Tail(sorted), x)

RECURSIVE SortSlice(_)
SortSlice(s) == IF s = <<>> THEN <<>> ELSE Insert(SortSlice(Tail(s)), Head(s))

\* route.go:64-72: the two filters
Qualifies(m, cl) ==
    /\ ~(m.QualityCeiling < cl.MinQuality)
    /\ hasStrengths(m.Strengths, cl.RequiredStrengths)

\* mutant: the maximum over the models that qualify for the classification
MaxCostOfQualified(c) ==
    LET costs == {c.Models[n].CostPer1kTok :
                     n \in {x \in DOMAIN c.Models : Qualifies(c.Models[x], class)}}
        top == IF costs = {} THEN 0 ELSE CHOOSE x \in costs : \A y \in costs : y <= x
    IN  IF top <= 0 THEN 1 ELSE top

\* route.go:50-58
MaxCost(c) ==
    LET costs == {c.Models[n].CostPer1kTok : n \in DOMAIN c.Models}
        top == IF costs = {} THEN 0 ELSE CHOOSE x \in costs : \A y \in costs : y <= x
    IN  IF top <= 0 THEN 1 ELSE top

\* route.go:75-80
Score(c, m) ==
    c.CostWeight * (100 - (m.CostPer1kTok * 100) \div MaxCost(c))
        + c.QualityWeight * m.QualityCeiling

\* tierOrder is the order of the range over cfg.Tiers
findModelTier(c, modelName, tierOrder) ==
    LET hit == FirstMatch(tierOrder,
                          {t \in DOMAIN c.Tiers : modelName \in Range(c.Tiers[t])})
    IN  IF hit # Nil THEN hit[1] ELSE "premium"

\* mutant: the fallback decision carries the fallback model's own score
FallbackDecisionScored(c, cl) ==
    [Model |-> c.FallbackModel, Score |-> c.QualityWeight, Tier |-> cl.Tier,
     Reasoning |-> "no qualified models, using fallback", EstCost |-> 0,
     Alternatives |-> <<>>]

\* route.go:84-91
FallbackDecision(c, cl) ==
    [Model |-> c.FallbackModel, Score |-> 0, Tier |-> cl.Tier,
     Reasoning |-> "no qualified models, using fallback", EstCost |-> 0,
     Alternatives |-> <<>>]

\* modelOrder is the order of the range over cfg.Models
Route(c, cl, modelOrder, tierOrder) ==
    LET passed == SelectSeq(modelOrder, LAMBDA n : Qualifies(c.Models[n], cl))
        candidates == SortSlice([k \in 1..Len(passed) |->
                                    [name |-> passed[k],
                                     score |-> Score(c, c.Models[passed[k]])]])
    IN  IF candidates = <<>> THEN FallbackDecision(c, cl)
        ELSE LET best == candidates[1] IN
             [Model |-> best.name, Score |-> best.score,
              Tier |-> findModelTier(c, best.name, tierOrder),
              Reasoning |-> <<cl.TaskType, " task -> ", best.name,
                              " (cheapest qualified)">>,
              EstCost |-> c.Models[best.name].CostPer1kTok,
              Alternatives |-> [k \in 1..(Len(candidates) - 1) |->
                                   [Model |-> candidates[k + 1].name,
                                    Score |-> candidates[k + 1].score]]]

(* Inputs of the router runs *)

\* b and c score alike under every weighting; b is in two tiers, d in none;
\* only b has the strength vision, and it is not the most expensive model
RouterCatalog ==
    [a |-> [Strengths |-> {"code", "reasoning"}, CostPer1kTok |-> 4,
            QualityCeiling |-> 95],
     b |-> [Strengths |-> {"code", "vision"}, CostPer1kTok |-> 2,
            QualityCeiling |-> 80],
     c |-> [Strengths |-> {"code"}, CostPer1kTok |-> 2, QualityCeiling |-> 80],
     d |-> [Strengths |-> {}, CostPer1kTok |-> 0, QualityCeiling |-> 50]]

RouterCfgs ==
    {[Models |-> [n \in names |-> RouterCatalog[n]],
      Tiers |-> [premium |-> <<"a", "b">>, budget |-> <<"b", "c">>],
      FallbackModel |-> "d",
      CostWeight |-> w[1], QualityWeight |-> w[2]] :
        names \in SUBSET DOMAIN RouterCatalog,
        w \in {<<6, 4>>, <<0, 10>>, <<10, 0>>, <<0, 0>>}}

Classifications ==
    {[ZeroClassification EXCEPT !.TaskType = "code", !.Tier = t,
                                !.MinQuality = q, !.RequiredStrengths = rs] :
        t \in {"premium", "budget"}, q \in {0, 50, 80, 90, 99},
        rs \in (SUBSET {"code", "reasoning"}) \cup {{"vision"}}}

RouteInit ==
    /\ cfg \in RouterCfgs
    /\ class \in Classifications
    /\ decisions = <<>>
    /\ EngineLocalsIdle
    /\ RetryIdle
    /\ StreamIdle
    /\ ClassIdle
    /\ PureIdle
    /\ CallerInit
    /\ HandlerIdle

RouteCall ==
    /\ Len(decisions) < MaxCalls
    /\ \E modelOrder \in Perms(DOMAIN cfg.Models), tierOrder \in Perms(DOMAIN cfg.Tiers) :
          decisions' = Append(decisions, Route(cfg, class, modelOrder, tierOrder))
    /\ UNCHANGED <<class, engineVars, retryVars, streamVars, classVars, pureVars,
                   callerVars, handlerVars>>

RouteNext == RouteCall

SpecRoute == RouteInit /\ [][RouteNext]_vars

----------------------------------------------------------------------------
(* InjectSuffix alone, over every short suffix and system prompt *)

\* longest configured prompt suffix and longest system prompt, in characters
MaxSuffixLen == 3
MaxPromptLen == 2

\* one model m whose suffix is nil or any short text; "u" is not configured
InjectInit ==
    /\ \E ps \in {Nil} \cup {Ptr(t) : t \in SeqsUpTo({" ", "x", "\n"}, MaxSuffixLen)} :
          cfg = [Models |-> [m |-> [Provider |-> "openai_compat", APIModel |-> "wire-m",
                                    PromptSuffix |-> ps]],
                 Failover |-> EngineCfg.Failover, FallbackModel |-> "m"]
    /\ injectIn \in [modelName : {"m", "u"},
                     systemPrompt : SeqsUpTo({"p", " ", "\n"}, MaxPromptLen)]
    /\ injectOut = Nil
    /\ patchIn = [rawBody |-> Nil, apiModel |-> "", suffix |-> <<>>]
    /\ patchOut = Nil
    /\ EngineLocalsIdle
    /\ RetryIdle
    /\ StreamIdle
    /\ ClassIdle
    /\ RouteIdle
    /\ CallerInit
    /\ HandlerIdle

ApplyInjectSuffix ==
    /\ injectOut = Nil
    /\ injectOut' = Ptr(InjectSuffix(cfg, injectIn.modelName, injectIn.systemPrompt))
    /\ UNCHANGED <<injectIn, patchIn, patchOut, engineVars, retryVars, streamVars,
                   classVars, routeVars, callerVars, handlerVars>>

InjectNext == ApplyInjectSuffix

SpecInject == InjectInit /\ [][InjectNext]_vars

----------------------------------------------------------------------------
(* PatchAnthropicRawBody alone *)

\* most top-level fields of a body besides model and system
MaxFields == 2

\* field values: an array with white space and a string holding "<" (a
\* tool-result block), a number, and a string that spells "<" as an escape
RawValues ==
    {<<[k |-> "punct", v |-> "["], [k |-> "ws", v |-> " "], [k |-> "str", v |-> "<"],
       [k |-> "punct", v |-> "]"]>>,
     <<[k |-> "punct", v |-> "7"]>>,
     <<[k |-> "str", v |-> "\\u003c"]>>}

PatchBodies ==
    {Ptr(InvalidBody)} \cup
    {Ptr([valid |-> TRUE, model |-> "client-model", system |-> sy, rest |-> fs]) :
        sy \in {SysAbsent, SysString(<<>>), SysString(<<"p">>),
                SysArray(<<TextBlock(<<"p">>)>>),
                SysArray(<<TextBlock(<<"q">>), TextBlock(<<"p">>)>>),
                [k |-> "null", s |-> <<>>, blocks |-> <<>>],
                [k |-> "other", s |-> <<>>, blocks |-> <<>>]},
        fs \in SeqsUpTo([key : Range(SortedKeys), raw : RawValues], MaxFields)}

PatchInit ==
    /\ cfg = EngineCfg
    /\ patchIn \in [rawBody : PatchBodies, apiModel : {"wire-a"},
                    suffix : {<<>>, <<"s">>}]
    /\ patchOut = Nil
    /\ injectIn = [modelName |-> "", systemPrompt |-> <<>>]
    /\ injectOut = Nil
    /\ EngineLocalsIdle
    /\ RetryIdle
    /\ StreamIdle
    /\ ClassIdle
    /\ RouteIdle
    /\ CallerInit
    /\ HandlerIdle

\* the function reads rawBody and writes only to maps and slices it makes
ApplyPatch ==
    /\ patchOut = Nil
    /\ patchOut' = Ptr(PatchAnthropicRawBody(patchIn.rawBody[1], patchIn.apiModel,
                                             patchIn.suffix))
    /\ UNCHANGED <<patchIn, injectIn, injectOut, engineVars, retryVars, streamVars,
                   classVars, routeVars, callerVars, handlerVars>>

PatchNext == ApplyPatch

SpecPatch == PatchInit /\ [][PatchNext]_vars

----------------------------------------------------------------------------
(* The engine over a catalog with two Vendor-A models, so that one run can *)
(* patch the inbound body more than once                                   *)

\* a, e: Vendor-A with different suffixes; b: OpenAI-compatible; c: Ollama;
\* d: a provider callProvider does not know; "u" is in no catalog
RepatchModels ==
    [a |-> [Provider |-> "anthropic", APIModel |-> "wire-a",
            PromptSuffix |-> Ptr(<<" ", "x", "\n">>)],
     e |-> [Provider |-> "anthropic", APIModel |-> "wire-e",
            PromptSuffix |-> Ptr(<<"z">>)],
     b |-> [Provider |-> "openai_compat", APIModel |-> "wire-b",
            PromptSuffix |-> Ptr(<<"y">>)],
     c |-> [Provider |-> "ollama", APIModel |-> "wire-c", PromptSuffix |-> Nil],
     d |-> [Provider |-> "bogus", APIModel |-> "wire-d",
            PromptSuffix |-> Ptr(Space)]]

RepatchCfg ==
    [Models |-> RepatchModels,
     Failover |-> [premium |-> <<"b", "e">>],
     FallbackModel |-> "a"]

RepatchNames == {"a", "e", "b", "c", "d", "u"}

\* inbound bodies: none, one that is no JSON object, and a JSON object with
\* each shape of the system field
RepatchBodies ==
    {Nil, Ptr(InvalidBody)} \cup
    {Ptr([ValidBody EXCEPT !.system = sy]) :
        sy \in {SysAbsent, SysString(<<"p">>), SysArray(<<TextBlock(<<"p">>)>>)}}

RepatchInit ==
    /\ cfg = RepatchCfg
    /\ telemetryOn = FALSE
    /\ decision \in {d \in Decisions(RepatchNames, MaxAlts) : d.Tier = "premium"}
    /\ sys0 = <<"p">>
    /\ \E raw \in RepatchBodies : req = [SystemPrompt |-> sys0, RawAnthropicBody |-> raw]
    /\ originalRawBody = Nil
    /\ chain = <<>>
    /\ i = 1
    /\ pc = "idle"
    /\ ret = NoReturn
    /\ trace = <<>>
    /\ closed = {}
    /\ failoverRecs = <<>>
    /\ RetryIdle
    /\ StreamIdle
    /\ OtherIdle

SpecRepatch == RepatchInit /\ [][Next]_vars

----------------------------------------------------------------------------
(* The messages handler of the proxy server.  served[r] is what the        *)
(* handler invocation for request r holds: the inbound request, the        *)
(* handler's position, its locals, the locals of its ExecuteWithFailover   *)
(* call, the telemetry writes it made and its response writer.  The        *)
(* backends' behaviour toward a request is part of its input: answers maps *)
(* a model name to a transport error or an HTTP status.  A message is a    *)
(* sequence of the pieces it is concatenated from.                         *)

\* w.WriteHeader: the first status line stands
WriteHeader(w, st) == IF w.status = 0 THEN [w EXCEPT !.status = st] ELSE w

\* w.Write: net/http sends status 200 first when none was written
Write(w, chunk) == [WriteHeader(w, 200) EXCEPT !.body = Append(@, chunk)]

\* w.Header().Set("Content-Type", ct)
SetContentType(w, ct) == [w EXCEPT !.ctype = ct]

sendError(w, errorType, message, statusCode) ==
    Write(WriteHeader(SetContentType(w, "application/json"), statusCode),
          [k |-> "envelope", type |-> "error",
           error |-> [type |-> errorType, message |-> message]])

\* mutant: an empty message list is let through
RejectAcceptsEmpty(in) ==
    IF in.method # "POST" THEN Ptr([status |-> 405, message |-> <<"Method not allowed">>])
    ELSE IF in.body = "unreadable"
    THEN Ptr([status |-> 400, message |-> <<"Failed to read request body">>])
    ELSE IF in.body = "malformed"
    THEN Ptr([status |-> 400, message |-> <<"Invalid JSON: ", "syntax error">>])
    ELSE Nil

\* part_001:87-109: the checks before any work is done; Nil when all pass
Reject(in) ==
    IF in.method # "POST" THEN Ptr([status |-> 405, message |-> <<"Method not allowed">>])
    ELSE IF in.body = "unreadable"
    THEN Ptr([status |-> 400, message |-> <<"Failed to read request body">>])
    ELSE IF in.body = "malformed"
    THEN Ptr([status |-> 400, message |-> <<"Invalid JSON: ", "syntax error">>])
    ELSE IF in.messages = 0
    THEN Ptr([status |-> 400, message |-> <<"messages is required">>])
    ELSE Nil

\* the value of the environment variable resolveAPIKey reads
resolveAPIKey(provider) ==
    CASE provider = "anthropic" -> "env:ANTHROPIC_API_KEY"
      [] provider = "openai_compat" -> "env:OPENAI_API_KEY"
      [] OTHER -> ""

\* the credential headers each adapter sets on its outbound request
OutboundHeaders(adapter) ==
    CASE adapter \in {"callAnthropicRaw", "callAnthropic"} ->
             [Authorization |-> Nil, XApiKey |-> Ptr(resolveAPIKey("anthropic"))]
      [] adapter = "callOpenAICompat" ->
             [Authorization |-> Ptr(<<"Bearer ", resolveAPIKey("openai_compat")>>),
              XApiKey |-> Nil]
      [] OTHER -> [Authorization |-> Nil, XApiKey |-> Nil]

\* part_001:112 and :148-167; ProviderRequest (classify.go:429-441) has no
\* field for credentials
BuildProviderRequest(c, in, d) ==
    [SystemPrompt |-> InjectSuffix(c, d.Model, ValidBody.system.s),
     RawAnthropicBody |-> Ptr(ValidBody)]

AttemptEntry(run, kind, status, r, adapter) ==
    [pos |-> run.i, model |-> run.chain[run.i], kind |-> kind, status |-> status,
     system |-> r.SystemPrompt, raw |-> r.RawAnthropicBody, adapter |-> adapter,
     headers |-> OutboundHeaders(adapter)]

\* failover.go:47-52
RunInit(c, d, r0) ==
    [chain |-> buildChainFromDecision(c, d), i |-> 1, req |-> r0,
     orig |-> r0.RawAnthropicBody, attempts |-> <<>>, ret |-> NoReturn,
     closed |-> {}, recs |-> <<>>, pc |-> "loop"]

\* the event id "" and the id uuid.New() gives the handler of request r
EmptyID == <<>>
EventID(r) == <<r>>

\* collector.go:75-85: INSERT; failover_from is not among the columns and
\* stays NULL
RecordRouting(rows, e) ==
    rows \cup {[id |-> e.ID, route_class |-> e.RouteClass, task_type |-> e.TaskType,
                tier |-> e.Tier, selected_model |-> e.SelectedModel,
                failover_from |-> Nil]}

\* collector.go:89-95: UPDATE ... WHERE id = eventID
RecordFailover(rows, eventID, fromModel, toModel) ==
    {IF row.id = eventID
     THEN [row EXCEPT !.failover_from = Ptr(fromModel), !.selected_model = toModel]
     ELSE row : row \in rows}

\* collector.go:109-175 with an empty model filter: the two counts
GetStats(rows) ==
    [TotalRequests |-> Cardinality(rows),
     FailoverCount |-> Cardinality({row \in rows : row.failover_from # Nil})]

\* failover.go:94: the event id the engine hands to RecordFailover
FailoverEventID(r) == EmptyID

\* mutant: a failed telemetry write fails the request
TelemetryFatalOnError(ok) == ~ok

\* a telemetry error is logged and nothing else
TelemetryFatal(ok) == FALSE

TelemetryError == <<"telemetry write failed">>

\* one iteration of the loop of ExecuteWithFailover, or the return after it
RunStep(c, tel, d, run, answers, telOK) ==
    IF run.i > Len(run.chain)
    THEN [run EXCEPT !.ret = [resp |-> Nil, model |-> "", err |-> Ptr(ExhaustedError(d))],
                     !.pc = "done"]
    ELSE LET name == run.chain[run.i] IN
         IF ~HasModel(c, name)
         THEN [run EXCEPT !.attempts = Append(@, AttemptEntry(run, "skipped", 0, run.req, "none")),
                          !.i = @ + 1]
         ELSE LET r == PrepareRequest(c, run.req, run.orig, name)
                  ad == Adapter(LookupModel(c, name), r)
                  ans == answers[name]
                  base == [run EXCEPT !.req = r]
                  resp == [resp |-> Ptr([status |-> ans.status, pos |-> run.i]),
                           model |-> name, err |-> Nil]
              IN  CASE ad = "none" ->
                         [base EXCEPT !.attempts = Append(@, AttemptEntry(run, "noadapter", 0, r, ad)),
                                      !.i = @ + 1]
                    [] ad # "none" /\ ans.err ->
                         [base EXCEPT !.attempts = Append(@, AttemptEntry(run, "error", 0, r, ad)),
                                      !.i = @ + 1]
                    [] ad # "none" /\ ~ans.err /\ IsSuccess(ans.status) ->
                         [base EXCEPT !.attempts = Append(@, AttemptEntry(run, "status", ans.status, r, ad)),
                                      !.recs = IF RecordsFailover(run.i, tel)
                                               THEN Append(@, <<run.chain[1], name>>) ELSE @,
                                      !.ret = IF RecordsFailover(run.i, tel) /\ TelemetryFatal(telOK)
                                              THEN [resp |-> Nil, model |-> "",
                                                    err |-> Ptr(TelemetryError)]
                                              ELSE resp,
                                      !.pc = "done"]
                    [] ad # "none" /\ ~ans.err /\ ~IsSuccess(ans.status)
                          /\ isRetryableStatus(ans.status) ->
                         [base EXCEPT !.attempts = Append(@, AttemptEntry(run, "status", ans.status, r, ad)),
                                      !.closed = CloseBody(@, run.i),
                                      !.i = @ + 1]
                    [] OTHER ->
                         [base EXCEPT !.attempts = Append(@, AttemptEntry(run, "status", ans.status, r, ad)),
                                      !.ret = resp,
                                      !.pc = "done"]

\* the body a backend sends with a status: a completion in the backend's
\* own format with 2xx, a JSON error object otherwise
UpstreamBody(name, st) ==
    [from |-> name, status |-> st,
     shape |-> IF IsSuccess(st) THEN "completion" ELSE "error"]

\* part_001:194-230: the response for the winning model's provider
WriteResponse(w, c, stream, res) ==
    LET model == LookupModel(c, res.model)
        body == UpstreamBody(res.model, res.resp[1].status)
        json == SetContentType(w, "application/json") IN
    IF stream
    THEN Write(SetContentType(w, "text/event-stream"),
               [k |-> "sse", translator |-> StreamDispatch(model.Provider), of |-> body])
    ELSE CASE model.Provider = "openai_compat" ->
                  IF body.shape = "completion"
                  THEN Write(json, [k |-> "message", model |-> res.model, of |-> body])
                  ELSE sendError(w, "api_error",
                                 <<"Failed to parse provider response">>, 502)
           [] model.Provider = "ollama" ->
                  Write(json, [k |-> "message", model |-> res.model, of |-> body])
           [] OTHER -> Write(json, [k |-> "upstream", of |-> body])

\* mutant: the engine's error is answered with status 500
FailoverErrorInternal(w, err) ==
    sendError(w, "api_error", <<"All providers failed: ">> \o err, 500)

\* part_001:171-174
FailoverError(w, err) ==
    sendError(w, "api_error", <<"All providers failed: ">> \o err, 502)

\* mutant: every call of the engine works on one shared set of locals
FrameShared(r) == 1

\* the locals of ExecuteWithFailover belong to the call: request r's call
\* works on served[r].run
Frame(r) == r

HandlerLeaves ==
    <<engineVars, retryVars, streamVars, classVars, routeVars, pureVars, callerVars>>

Validate(r) ==
    /\ served[r].hpc = "recv"
    /\ LET rej == Reject(served[r].in) IN
       served' = IF rej # Nil
                 THEN [served EXCEPT
                         ![r].w = sendError(@, "invalid_request_error",
                                            rej[1].message, rej[1].status),
                         ![r].hpc = "exit"]
                 ELSE [served EXCEPT ![r].hpc = "classify"]
    /\ UNCHANGED <<HandlerLeaves, events>>

HandlerClassify(r) ==
    /\ served[r].hpc = "classify"
    /\ \E hdrOrder \in Perms(DOMAIN cfg.RouteClasses),
          patOrder \in Perms(DOMAIN cfg.RouteClasses),
          taskOrder \in Perms(TaskPatternNames(cfg)) :
          served' = [served EXCEPT
                       ![r].classification =
                           Ptr(Classify(cfg, served[r].in.prompt, served[r].in.header,
                                        hdrOrder, patOrder, taskOrder)),
                       ![r].hpc = "route"]
    /\ UNCHANGED <<HandlerLeaves, events>>

\* Route, the provider request, the captured credentials and the entry into
\* ExecuteWithFailover
HandlerRoute(r) ==
    /\ served[r].hpc = "route"
    /\ \E modelOrder \in Perms(DOMAIN cfg.Models), tierOrder \in Perms(DOMAIN cfg.Tiers) :
          LET d == Route(cfg, served[r].classification[1], modelOrder, tierOrder) IN
          served' = [served EXCEPT
                       ![r].decision = Ptr(d),
                       ![r].authHeader = [Authorization |-> served[r].in.auth,
                                          XApiKey |-> served[r].in.key],
                       ![r].hpc = "loop",
                       ![Frame(r)].run =
                           RunInit(cfg, d, BuildProviderRequest(cfg, served[r].in, d))]
    /\ UNCHANGED <<HandlerLeaves, events>>

HandlerAttempt(r) ==
    /\ served[r].hpc = "loop"
    /\ served[Frame(r)].run.pc = "loop"
    /\ \E telOK \in BOOLEAN :
          LET run == served[Frame(r)].run
              next == RunStep(cfg, telemetryOn, served[r].decision[1], run,
                              served[r].in.answers, telOK)
              wrote == Len(next.recs) > Len(run.recs) IN
          /\ wrote \/ telOK
          /\ served' = [served EXCEPT
                          ![r].tel = IF wrote
                                     THEN Append(@, [kind |-> "failover", ok |-> telOK])
                                     ELSE @,
                          ![r].hpc = IF next.pc = "done" THEN "respond" ELSE "loop",
                          ![Frame(r)].run = next]
          /\ events' = IF wrote /\ telOK
                        THEN RecordFailover(events, FailoverEventID(r),
                                            next.recs[Len(next.recs)][1],
                                            next.recs[Len(next.recs)][2])
                        ELSE events
    /\ UNCHANGED HandlerLeaves

\* part_001:171-230: the error envelope, or the routing event and the
\* response; the deferred Close releases the winning body
HandlerRespond(r) ==
    /\ served[r].hpc = "respond"
    /\ LET run == served[Frame(r)].run IN
       IF run.ret.err # Nil
       THEN /\ served' = [served EXCEPT ![r].w = FailoverError(@, run.ret.err[1]),
                                        ![r].hpc = "exit"]
            /\ UNCHANGED events
       ELSE \E telOK \in BOOLEAN :
               /\ telemetryOn \/ telOK
               /\ events' =
                     IF telemetryOn /\ telOK
                     THEN RecordRouting(events,
                              [ID |-> EventID(r),
                               RouteClass |-> served[r].classification[1].RouteClass,
                               TaskType |-> served[r].classification[1].TaskType,
                               Tier |-> served[r].classification[1].Tier,
                               SelectedModel |-> run.ret.model])
                     ELSE events
               /\ served' = [served EXCEPT
                               ![r].tel = IF telemetryOn
                                          THEN Append(@, [kind |-> "routing", ok |-> telOK])
                                          ELSE @,
                               ![r].w = IF telemetryOn /\ TelemetryFatal(telOK)
                                        THEN sendError(@, "api_error", TelemetryError, 500)
                                        ELSE WriteResponse(@, cfg, served[r].in.stream,
                                                           run.ret),
                               ![r].hpc = "exit",
                               ![Frame(r)].run.closed = CloseBody(@, run.ret.resp[1].pos)]
    /\ UNCHANGED HandlerLeaves

(* Inputs of the handler runs *)

\* a: Vendor-A, b: OpenAI-compatible, c: Ollama
HandlerModels ==
    [n \in {"a", "b", "c"} |->
        [Provider |-> EngineModels[n].Provider, APIModel |-> EngineModels[n].APIModel,
         PromptSuffix |-> EngineModels[n].PromptSuffix,
         Strengths |-> RouterCatalog[n].Strengths,
         CostPer1kTok |-> RouterCatalog[n].CostPer1kTok,
         QualityCeiling |-> RouterCatalog[n].QualityCeiling]]

HandlerCfg ==
    [RouteClasses |-> RouteClasses3, Tasks |-> TasksNoChat, Models |-> HandlerModels,
     Tiers |-> [premium |-> <<"a", "b">>, budget |-> <<"b", "c">>],
     Failover |-> [premium |-> <<"b", "a">>],
     FallbackModel |-> "c", CostWeight |-> 6, QualityWeight |-> 4]

Failure == [err |-> TRUE, status |-> 0]
Status(st) == [err |-> FALSE, status |-> st]

\* what each backend does with the request
Answers ==
    {[a |-> x, b |-> y, c |-> z] :
        x \in {Failure, Status(200), Status(400), Status(503)},
        y \in {Failure, Status(200), Status(404), Status(503)},
        z \in {Failure, Status(200), Status(404), Status(429)}}

ValidInputs ==
    [method : {"POST"}, body : {"ok"}, messages : {1},
     prompt : {<<"hello">>, <<"FIX">>}, header : {Nil, Ptr(<<"b">>)},
     stream : BOOLEAN, auth : {Nil, Ptr("Bearer client-token")},
     key : {Nil, Ptr("client-key")}, answers : Answers]

RejectedInputs ==
    [method : {"POST", "GET"}, body : {"ok", "malformed", "unreadable"},
     messages : {0, 1}, prompt : {<<"hello">>}, header : {Nil}, stream : BOOLEAN,
     auth : {Nil}, key : {Ptr("client-key")},
     answers : {[n \in DOMAIN HandlerModels |-> Status(200)]}]

NewRequest(in) == [OffRequest EXCEPT !.in = in, !.hpc = "recv"]

HandlerEngineIdle ==
    /\ decision = [Model |-> "", Alternatives |-> <<>>, Tier |-> ""]
    /\ sys0 = <<>>
    /\ req = [SystemPrompt |-> <<>>, RawAnthropicBody |-> Nil]
    /\ originalRawBody = Nil
    /\ chain = <<>>
    /\ i = 1
    /\ pc = "off"
    /\ ret = NoReturn
    /\ trace = <<>>
    /\ closed = {}
    /\ failoverRecs = <<>>
    /\ RetryIdle
    /\ StreamIdle
    /\ ClassIdle
    /\ RouteIdle
    /\ PureIdle
    /\ CallerInit

\* one request is served
HandlerInit ==
    /\ cfg = HandlerCfg
    /\ telemetryOn \in BOOLEAN
    /\ \E in \in ValidInputs \cup RejectedInputs :
          served = [r \in Requests |-> IF r = 1 THEN NewRequest(in) ELSE OffRequest]
    /\ events = {}
    /\ HandlerEngineIdle

HandlerNext ==
    \/ \E r \in Requests : Validate(r)
    \/ \E r \in Requests : HandlerClassify(r)
    \/ \E r \in Requests : HandlerRoute(r)
    \/ \E r \in Requests : HandlerAttempt(r)
    \/ \E r \in Requests : HandlerRespond(r)

SpecHandler == HandlerInit /\ [][HandlerNext]_vars

----------------------------------------------------------------------------
(* Two requests served at the same time: net/http runs each handler        *)
(* invocation in its own goroutine, and their steps interleave freely      *)

\* a failover to b, a non-retryable answer from b, and all backends failing
ConcurrentAnswers ==
    {[a |-> Status(503), b |-> Status(200), c |-> Status(200)],
     [a |-> Failure, b |-> Status(404), c |-> Failure],
     [a |-> Status(503), b |-> Failure, c |-> Status(429)]}

ConcurrentInputs ==
    [method : {"POST"}, body : {"ok"}, messages : {1},
     prompt : {<<"hello">>, <<"FIX">>}, header : {Nil}, stream : {FALSE},
     auth : {Nil}, key : {Ptr("client-key")}, answers : ConcurrentAnswers]
    \cup
    [method : {"GET"}, body : {"ok"}, messages : {1}, prompt : {<<"hello">>},
     header : {Nil}, stream : {FALSE}, auth : {Nil}, key : {Ptr("client-key")},
     answers : {[n \in DOMAIN HandlerModels |-> Status(200)]}]

ConcurrentInit ==
    /\ cfg = HandlerCfg
    /\ telemetryOn \in BOOLEAN
    /\ served \in [Requests -> {NewRequest(in) : in \in ConcurrentInputs}]
    /\ events = {}
    /\ HandlerEngineIdle

SpecConcurrent == ConcurrentInit /\ [][HandlerNext]_vars

----------------------------------------------------------------------------
(* Claims about the failover engine *)

Success2xx == 200..299
RetryableSet == {401, 403, 429} \cup (500..599)

\* the loop iterations that sent a request to a backend
IsCall(e) == e.kind \in {"error", "status"}
CallIdx == {k \in 1..Len(trace) : IsCall(trace[k])}

\* C1: the models are attempted strictly in chain order, one loop iteration
\* per chain position; no model is sent more than one request; an identifier
\* outside the catalog is skipped without a request and a catalog model is
\* never skipped; a 2xx response ends the run at once and is returned with
\* the name of the model that gave it.
C1_ChainOrderFirstSuccess ==
    /\ Len(trace) <= Len(chain)
    /\ \A k \in 1..Len(trace) :
          /\ trace[k].pos = k
          /\ trace[k].model = chain[k]
          /\ (trace[k].kind = "skipped") <=> (trace[k].model \notin DOMAIN cfg.Models)
          /\ (trace[k].kind = "status" /\ trace[k].status \in Success2xx) =>
                /\ k = Len(trace)
                /\ pc = "done"
                /\ ret = [resp |-> <<[status |-> trace[k].status, pos |-> k]>>,
                          model |-> chain[k], err |-> <<>>]
    /\ \A k, l \in CallIdx : k # l => trace[k].model # trace[l].model

\* C1 witness: an unknown identifier was skipped, the next model answered 429,
\* the one after it 200 and won, with a later chain entry left untouched.
C1_Witness ==
    /\ pc = "done"
    /\ Len(trace) = 3
    /\ Len(chain) > 3
    /\ trace[1].kind = "skipped"
    /\ trace[2].kind = "status" /\ trace[2].status = 429
    /\ trace[3].kind = "status" /\ trace[3].status = 200
    /\ ret.model = chain[3]

\* C2: a status that is neither 2xx nor retryable ends the run: the response
\* is returned as it is with that model's name and a nil error, and no later
\* model is called.
C2_NonRetryableReturned ==
    \A k \in 1..Len(trace) :
        (/\ trace[k].kind = "status"
         /\ trace[k].status \notin Success2xx
         /\ trace[k].status \notin RetryableSet) =>
            /\ k = Len(trace)
            /\ pc = "done"
            /\ ret = [resp |-> <<[status |-> trace[k].status, pos |-> trace[k].pos]>>,
                      model |-> trace[k].model, err |-> <<>>]

\* C2 witness: the first model answered 404 and was returned while configured
\* models remained in the chain.
C2_Witness ==
    /\ pc = "done"
    /\ Len(trace) = 1
    /\ trace[1].kind = "status" /\ trace[1].status = 404
    /\ ret.resp = <<[status |-> 404, pos |-> 1]>>
    /\ \E k \in 2..Len(chain) : chain[k] \in DOMAIN cfg.Models

Failed(e) ==
    \/ e.kind \in {"skipped", "noadapter", "error"}
    \/ e.kind = "status" /\ e.status \in RetryableSet

\* C4: when the run is over and every chain entry was unknown, failed with
\* an error or answered a retryable status, the result is no response, an
\* empty model name and the error "all models in <tier> chain exhausted".
C4_ExhaustedError ==
    (pc = "done" /\ \A k \in 1..Len(trace) : Failed(trace[k])) =>
        /\ Len(trace) = Len(chain)
        /\ ret = [resp |-> <<>>, model |-> "",
                  err |-> << <<"all models in ", decision.Tier, " chain exhausted">> >>]

\* C4 witness: a chain with an unknown identifier, a transport error and a
\* retryable status, exhausted under tier premium.
C4_Witness ==
    /\ pc = "done"
    /\ ret.err # <<>>
    /\ decision.Tier = "premium"
    /\ \E k \in 1..Len(trace) : trace[k].kind = "skipped"
    /\ \E k \in 1..Len(trace) : trace[k].kind = "error"
    /\ \E k \in 1..Len(trace) : trace[k].kind = "status" /\ trace[k].status = 503

\* C6: on every attempt the system prompt handed to the adapter is the
\* suffix of that attempt's model injected into the prompt the engine was
\* called with.
C6_PristineSystemPrompt ==
    \A k \in 1..Len(trace) :
        trace[k].kind # "skipped" =>
            trace[k].system = InjectSuffix(cfg, trace[k].model, sys0)

----------------------------------------------------------------------------
(* Claim about isRetryableStatus *)

----------------------------------------------------------------------------
(* Claim about buildChainFromDecision *)

\* selected model, alternatives, the tier's configured chain, the fallback
ChainSource ==
    <<decision.Model>> \o AltModels(decision)
        \o (IF decision.Tier \in DOMAIN cfg.Failover
            THEN cfg.Failover[decision.Tier] ELSE <<>>)
        \o <<cfg.FallbackModel>>

FirstIndex(s, x) == CHOOSE k \in 1..Len(s) : s[k] = x /\ \A j \in 1..(k - 1) : s[j] # x

\* C5: the built chain has no empty name and no name twice, holds exactly
\* the non-empty names of selected model, alternatives, tier chain and
\* fallback, and orders them by their first occurrence in that order.
C5_ChainDedupOrder ==
    pc = "built" =>
        /\ "" \notin Range(chain)
        /\ Range(chain) = Range(ChainSource) \ {""}
        /\ \A k, l \in 1..Len(chain) :
              k < l => FirstIndex(ChainSource, chain[k]) < FirstIndex(ChainSource, chain[l])

\* C5 witness: an alternative repeats the selected model, the tier chain
\* repeats an alternative, and the fallback is already present.
C5_Witness ==
    /\ pc = "built"
    /\ decision.Tier = "premium"
    /\ Len(chain) = 3
    /\ Len(decision.Alternatives) = 2
    /\ decision.Alternatives[1].Model = decision.Model
    /\ Len(cfg.Failover["premium"]) = 2
    /\ cfg.Failover["premium"][1] = decision.Alternatives[2].Model
    /\ cfg.Failover["premium"][2] \notin {decision.Model, decision.Alternatives[2].Model, ""}
    /\ cfg.FallbackModel = decision.Model

----------------------------------------------------------------------------
(* Claims about the stream translators *)

Translating == {"StreamOpenAIToAnthropic", "StreamOllamaToAnthropic"}

EventNames(o) == [k \in 1..Len(o) |-> o[k].name]

DeltaPrefix(names) ==
    /\ Len(names) >= 2
    /\ names[1] = "message_start"
    /\ names[2] = "content_block_start"

EnvelopeShape(names) ==
    /\ Len(names) >= 5
    /\ DeltaPrefix(names)
    /\ \A k \in 3..(Len(names) - 3) : names[k] = "content_block_delta"
    /\ names[Len(names) - 2] = "content_block_stop"
    /\ names[Len(names) - 1] = "message_delta"
    /\ names[Len(names)] = "message_stop"

\* C7: whatever the upstream lines are, a translating stream function has
\* written, when it returns, message_start, content_block_start, any number
\* of content_block_delta, content_block_stop, message_delta, message_stop
\* and nothing else; until then it has written the first two and deltas.
C7_TranslatedEventSequence ==
    translator \in Translating =>
        /\ \A k \in 1..Len(out) : out[k].kind = "event"
        /\ spc = "done" => EnvelopeShape(EventNames(out))
        /\ spc = "scan" =>
              /\ DeltaPrefix(EventNames(out))
              /\ \A k \in 3..Len(out) : out[k].name = "content_block_delta"

\* C7 witness: an OpenAI upstream with a malformed line and no [DONE] line
\* was translated to the six events around one delta.
C7_Witness ==
    /\ spc = "done"
    /\ translator = "StreamOpenAIToAnthropic"
    /\ DataDone \notin Range(upstream)
    /\ DataBad \in Range(upstream)
    /\ Len(out) = 6
    /\ out[3].text = "Hello"

\* the events a client reads from the response: the translators' events and
\* the "event:" lines the passthrough copied
RECURSIVE ClientEvents(_)
ClientEvents(o) ==
    IF o = <<>> THEN <<>>
    ELSE (IF Head(o).kind = "event" THEN <<Head(o).name>>
          ELSE IF Head(o).line.pre = "event:" THEN <<Head(o).line.name>>
          ELSE <<>>) \o ClientEvents(Tail(o))

Envelope == <<"message_start", "content_block_start", "content_block_stop",
              "message_delta", "message_stop">>

Occurrences(names, n) == {k \in 1..Len(names) : names[k] = n}

OneEachInOrder(names) ==
    /\ \A e \in 1..Len(Envelope) : Cardinality(Occurrences(names, Envelope[e])) = 1
    /\ \A e, f \in 1..Len(Envelope) :
          e < f => \A k \in Occurrences(names, Envelope[e]),
                      l \in Occurrences(names, Envelope[f]) : k < l

CopiedLines(o) == [k \in 1..Len(o) |-> o[k].line]

IsPrefix(s, t) == Len(s) <= Len(t) /\ \A k \in 1..Len(s) : s[k] = t[k]

WinnerProvider == LookupModel(cfg, usedModel).Provider

\* C8 as stated: every finished streaming response, of whichever backend
\* shape, has exactly one each of the five envelope events, in order.
C8_EnvelopeEveryShape ==
    spc = "done" => OneEachInOrder(ClientEvents(out))

\* C8 as amended: a finished streaming response of an OpenAI-compatible or
\* Ollama winner has exactly one each of the five envelope events, in
\* order; for a Vendor-A winner the handler writes only lines copied from
\* the upstream, in upstream order, and adds no event of its own.
C8_EnvelopeTranslatedShapes ==
    spc = "done" =>
        /\ WinnerProvider \in {"openai_compat", "ollama"} =>
              OneEachInOrder(ClientEvents(out))
        /\ WinnerProvider = "anthropic" =>
              /\ \A k \in 1..Len(out) : out[k].kind = "line"
              /\ IsPrefix(CopiedLines(out), upstream)

\* C8 witness: an Ollama winner's stream, ended by its done object, was
\* translated with one delta.
C8_Witness ==
    /\ spc = "done"
    /\ WinnerProvider = "ollama"
    /\ upstream = <<Obj("Hello", FALSE, 0), Obj("", TRUE, 42)>>
    /\ ClientEvents(out) = <<"message_start", "content_block_start",
                             "content_block_delta", "content_block_stop",
                             "message_delta", "message_stop">>

NonEmpty(cs) == SelectSeq(cs, LAMBDA x : x # "")

\* the delta contents the upstream sent ahead of its first [DONE] line
RECURSIVE UpstreamDeltas(_)
UpstreamDeltas(lines) ==
    IF lines = <<>> THEN <<>>
    ELSE LET l == Head(lines) IN
         IF l.pre = "data:" /\ l.body = "[DONE]" THEN <<>>
         ELSE (IF l.pre = "data:" /\ l.body = "json" /\ ~l.typeErr
               THEN NonEmpty(l.choices) ELSE <<>>) \o UpstreamDeltas(Tail(lines))

DeltaTexts(o) ==
    LET ds == SelectSeq(o, LAMBDA it : it.name = "content_block_delta")
    IN  [k \in 1..Len(ds) |-> ds[k].text]

\* C9: the delta texts StreamOpenAIToAnthropic wrote are, in upstream order,
\* the non-empty delta contents of the well-formed data lines ahead of the
\* first [DONE] line, none dropped, repeated or reordered.
C9_DeltasAreUpstreamContents ==
    (spc = "done" /\ translator = "StreamOpenAIToAnthropic") =>
        DeltaTexts(out) = UpstreamDeltas(upstream)

\* no line of the upstream is longer than the scanner's buffer
WithinScannerLimit == \A k \in 1..Len(upstream) : ~upstream[k].long

\* C9, for upstreams within the scanner's limit: what holds of the code when
\* the over-long line is left out.
C9_WithinScannerLimit == WithinScannerLimit => C9_DeltasAreUpstreamContents

\* Len(out) at the flushes of a passthrough of lines, the first of which is
\* line number n + 1 of the upstream
RECURSIVE DataFlushes(_, _)
DataFlushes(lines, n) ==
    IF lines = <<>> THEN <<>>
    ELSE (IF Head(lines).pre = "data:" THEN <<n + 1>> ELSE <<>>)
             \o DataFlushes(Tail(lines), n + 1)

\* C10: StreamAnthropicPassthrough wrote exactly the upstream lines, in
\* order and unchanged, flushed after each data line and once at the end.
C10_PassthroughVerbatim ==
    (spc = "done" /\ translator = "StreamAnthropicPassthrough") =>
        /\ \A k \in 1..Len(out) : out[k].kind = "line"
        /\ CopiedLines(out) = upstream
        /\ flushes = DataFlushes(upstream, 0) \o <<Len(upstream)>>

\* C10, for upstreams within the scanner's limit: what holds of the code
\* when the over-long line is left out.
C10_WithinScannerLimit == WithinScannerLimit => C10_PassthroughVerbatim

----------------------------------------------------------------------------
(* Claims about the classifier *)

\* the classes one of whose header rules contains the token
HeaderClasses(c, h) ==
    IF h = Nil THEN {}
    ELSE {n \in DOMAIN c.RouteClasses : HeaderHit(c, n, h[1])}

\* the classes one of whose compiled content patterns matches the prompt
ContentClasses(c, text) == {n \in DOMAIN c.RouteClasses : ContentHit(c, n, text)}

\* C11: when an x-request-type token is supplied and exactly one configured
\* route class has a header rule containing it, every Classify call returns
\* that class, whatever content patterns the prompt matches.
C11_HeaderOverride ==
    (reqHeaders # Nil /\ Cardinality(HeaderClasses(cfg, reqHeaders)) = 1) =>
        \A k \in 1..Len(classifications) :
            classifications[k].RouteClass \in HeaderClasses(cfg, reqHeaders)

\* the header names one class while the prompt matches the content patterns
\* of another, and Classify has run
C11_Witness ==
    /\ reqHeaders # Nil
    /\ Cardinality(HeaderClasses(cfg, reqHeaders)) = 1
    /\ ContentClasses(cfg, prompt) \ HeaderClasses(cfg, reqHeaders) # {}
    /\ Len(classifications) = MaxCalls

\* C12: for a fixed configuration, prompt and header map, all Classify calls
\* return the same route class.
C12_SameRouteClass ==
    \A j, k \in 1..Len(classifications) :
        classifications[j].RouteClass = classifications[k].RouteClass

\* no range over the classes has two candidates to pick from
Unambiguous ==
    /\ Cardinality(HeaderClasses(cfg, reqHeaders)) <= 1
    /\ Cardinality(ContentClasses(cfg, prompt)) <= 1

\* the route class is stable as long as at most one class matches each rule
C12_StableWhenUnambiguous == Unambiguous => C12_SameRouteClass

\* some compiled task pattern matched the prompt
TaskMatched(c, text) == \E n \in DOMAIN c.Tasks : HitCount(c, n, text) > 0

----------------------------------------------------------------------------
(* Claims about the router *)

\* the identifiers of a decision: the selected model, then the alternatives
Members(d) == <<d.Model>> \o AltModels(d)

\* the configured models that pass both filters for the classification
Qualified == {n \in DOMAIN cfg.Models : Qualifies(cfg.Models[n], class)}

\* C14: in every decision the selected model scores at least as high as
\* every alternative, the alternatives are in non-increasing score order
\* with equal scores in ascending name order, no identifier occurs twice
\* among selected model and alternatives, and repeated Route calls on the
\* same classification select the same model and list the same alternatives
\* in the same order.
C14_RankedUniqueStable ==
    /\ \A k \in 1..Len(decisions) :
          LET d == decisions[k]
              alts == d.Alternatives
          IN  /\ \A j \in 1..Len(alts) : d.Score >= alts[j].Score
              /\ \A j \in 1..(Len(alts) - 1) :
                    \/ alts[j].Score > alts[j + 1].Score
                    \/ /\ alts[j].Score = alts[j + 1].Score
                       /\ NameLess(alts[j].Model, alts[j + 1].Model)
              /\ Cardinality(Range(Members(d))) = Len(alts) + 1
    /\ \A j, k \in 1..Len(decisions) : Members(decisions[j]) = Members(decisions[k])

\* Route ran MaxCalls times on a catalog where two alternatives tie
C14_Witness ==
    /\ Len(decisions) = MaxCalls
    /\ \E j \in 1..(Len(decisions[1].Alternatives) - 1) :
          decisions[1].Alternatives[j].Score = decisions[1].Alternatives[j + 1].Score

C16_FallbackDecision ==
    Qualified = {} =>
        \A k \in 1..Len(decisions) :
            /\ decisions[k].Model = cfg.FallbackModel
            /\ decisions[k].Score = 0
            /\ decisions[k].Reasoning = "no qualified models, using fallback"
            /\ decisions[k].Alternatives = <<>>

\* the catalog is not empty, no model of it qualifies, and Route has run
C16_Witness ==
    /\ DOMAIN cfg.Models # {}
    /\ Qualified = {}
    /\ cfg.QualityWeight > 0
    /\ Len(decisions) > 0

----------------------------------------------------------------------------
(* Claims about InjectSuffix and PatchAnthropicRawBody *)

\* s without its leading and trailing white space: from its first to its
\* last character that is not white space
Trimmed(s) ==
    LET solid == {n \in 1..Len(s) : ~IsSpace(s[n])} IN
    IF solid = {} THEN <<>>
    ELSE SubSeq(s, CHOOSE n \in solid : \A j \in solid : n <= j,
                   CHOOSE n \in solid : \A j \in solid : j <= n)

\* C17: InjectSuffix(model, p) is p when the model is unknown, has no
\* suffix, or has a suffix that is empty once trimmed; with a non-empty
\* trimmed suffix S it is p + "\n\n" + S for non-empty p and S for empty p.
C17_InjectSuffix ==
    injectOut # Nil =>
        LET p == injectIn.systemPrompt
            known == injectIn.modelName \in DOMAIN cfg.Models
            ps == IF known THEN cfg.Models[injectIn.modelName].PromptSuffix ELSE Nil
            S == IF ps = Nil THEN <<>> ELSE Trimmed(ps[1])
        IN  IF S = <<>> THEN injectOut[1] = p
            ELSE IF p = <<>> THEN injectOut[1] = S
            ELSE injectOut[1] = p \o <<"\n", "\n">> \o S

\* a suffix that needs trimming on both sides was injected into an empty
\* system prompt
C17_Witness ==
    /\ injectOut # Nil
    /\ injectIn.modelName = "m"
    /\ injectIn.systemPrompt = <<>>
    /\ cfg.Models["m"].PromptSuffix = Ptr(<<" ", "x", "\n">>)
    /\ injectOut[1] = <<"x">>

\* the JSON value a raw text stands for: white space dropped, escapes decoded
Value(raw) ==
    LET kept == SelectSeq(raw, LAMBDA x : x.k # "ws") IN
    [n \in 1..Len(kept) |->
        IF kept[n].k = "str" /\ kept[n].v = "\\u003c"
        THEN [k |-> "str", v |-> "<"] ELSE kept[n]]

\* the value of a top-level field of a body, Nil when the body has none
FieldValue(fields, key) ==
    IF \E n \in 1..Len(fields) : fields[n].key = key
    THEN Ptr(Value(fields[CHOOSE n \in 1..Len(fields) :
                              /\ fields[n].key = key
                              /\ \A j \in (n + 1)..Len(fields) : fields[j].key # key].raw))
    ELSE Nil

PatchedBody == patchOut[1].body[1]

C18_ByteForByte ==
    (patchOut # Nil /\ ~patchOut[1].err) =>
        PatchedBody.rest = patchIn.rawBody[1].rest

----------------------------------------------------------------------------
(* Claims about response bodies and cancellation *)

\* the chain positions whose call gave the engine a response, body included
Obtained == {trace[k].pos : k \in {n \in 1..Len(trace) : trace[n].kind = "status"}}

\* the bodies nobody has closed so far
OpenBodies == Obtained \ (closed \cup callerClosed)

Returned == IF ret.err = Nil /\ ret.resp # Nil THEN {ret.resp[1].pos} ELSE {}

\* C19: a response body is closed by the engine (retryable status) or by
\* the handler it was returned to, never by both; once ExecuteWithFailover
\* has returned, the only body still open is the returned one, and none is
\* open after an error return; once the handler has returned none is open.
C19_BodiesReleased ==
    /\ closed \cap callerClosed = {}
    /\ closed \cup callerClosed \subseteq Obtained
    /\ \A k \in closed : \E n \in 1..Len(trace) :
          trace[n].pos = k /\ isRetryableStatus(trace[n].status)
    /\ (pc = "done" /\ hpc = "call") => OpenBodies = Returned
    /\ (pc = "done" /\ ret.err # Nil) => OpenBodies = {}
    /\ hpc = "exit" => (OpenBodies = {} /\ callerClosed = Returned)

\* two bodies were obtained in one run: the engine closed the first, the
\* handler the second
C19_Witness ==
    /\ hpc = "exit"
    /\ closed # {}
    /\ callerClosed # {}
    /\ Cardinality(Obtained) >= 2

\* no response came back from a call started once the context was done
NoLateResponse ==
    cancelled =>
        /\ \A n \in 1..Len(trace) :
              (trace[n].kind = "status") => trace[n].pos < cancelledAt
        /\ (pc = "done" /\ ret.err = Nil) => ret.resp[1].pos < cancelledAt

\* the call that the cancellation interrupted ended with an error
InFlightAborted ==
    inFlightAt > 0 =>
        \E n \in 1..Len(trace) :
            trace[n].pos = inFlightAt /\ trace[n].kind = "error"

\* C20: when the request's context is cancelled during a backend call, that
\* call ends with an error and ExecuteWithFailover eventually returns; what
\* it returns is never a response of a call started after the cancellation.
C20_CancelExitsLoop ==
    /\ [](NoLateResponse /\ InFlightAborted)
    /\ (cancelled ~> pc = "done")

\* a call was interrupted with models left in the chain, and the engine
\* returned the exhausted error after going through them
C20_Witness ==
    /\ inFlightAt > 0
    /\ inFlightAt < Len(chain)
    /\ pc = "done"
    /\ ret.err # Nil
    /\ Len(trace) = Len(chain)

----------------------------------------------------------------------------
(* Claims about the body each attempt is sent *)

\* the text of a system field: the string, or the block texts in order
RECURSIVE BlockTexts(_)
BlockTexts(bs) == IF bs = <<>> THEN <<>> ELSE Head(bs).text \o BlockTexts(Tail(bs))

SystemText(system) ==
    CASE system.k = "string" -> system.s
      [] system.k = "array" -> BlockTexts(system.blocks)
      [] OTHER -> <<>>

\* how many times sub occurs in text
CountIn(text, sub) ==
    Cardinality({k \in 1..(Len(text) - Len(sub) + 1) :
                    SubSeq(text, k, k + Len(sub) - 1) = sub})

\* the backend calls of the run so far that went to a Vendor-A model
VendorAAttempts ==
    {n \in DOMAIN trace :
        /\ trace[n].kind # "skipped"
        /\ LookupModel(cfg, trace[n].model).Provider = "anthropic"}

Carried == originalRawBody # Nil /\ originalRawBody[1].valid

\* C27: when the inbound bytes are carried, every attempt to a Vendor-A
\* model M is sent PatchAnthropicRawBody of the original bytes, M's wire
\* model name and M's trimmed suffix, whatever was attempted before: its
\* system field holds M's suffix exactly once and no other model's suffix.
C27_PatchedFromOriginal ==
    \A n \in VendorAAttempts :
        LET e == trace[n]
            m == LookupModel(cfg, e.model)
            suf == getModelSuffix(cfg, e.model) IN
        Carried =>
            /\ e.adapter = "callAnthropicRaw"
            /\ e.raw = PatchAnthropicRawBody(originalRawBody[1], m.APIModel, suf).body
            /\ e.raw[1].model = m.APIModel
            /\ CountIn(SystemText(e.raw[1].system), suf) = 1
            /\ \A o \in DOMAIN cfg.Models \ {e.model} :
                  getModelSuffix(cfg, o) # <<>> =>
                      CountIn(SystemText(e.raw[1].system), getModelSuffix(cfg, o)) = 0

\* two Vendor-A models were attempted in one run with the bytes carried,
\* with another backend attempted in between
C27_Witness ==
    /\ Carried
    /\ \E n, k \in VendorAAttempts :
          /\ n + 1 < k
          /\ trace[n].model # trace[k].model
          /\ trace[n + 1].kind # "skipped"

\* C28: the raw body goes only to Vendor-A models: an attempt to an
\* OpenAI-compatible or Ollama model, and a Vendor-A attempt whose patch
\* failed, is sent the normalized request and never the raw bytes, even
\* after an attempt of the same run that used the raw body.
C28_RawOnlyToVendorA ==
    \A n \in DOMAIN trace :
        LET e == trace[n]
            m == LookupModel(cfg, e.model) IN
        e.kind # "skipped" =>
            /\ e.adapter = "callAnthropicRaw" => m.Provider = "anthropic" /\ Carried
            /\ m.Provider = "openai_compat" =>
                   e.adapter = "callOpenAICompat" /\ e.raw = Nil
            /\ m.Provider = "ollama" => e.adapter = "callOllama" /\ e.raw = Nil
            /\ (m.Provider = "anthropic" /\ ~Carried) =>
                   e.adapter = "callAnthropic" /\ e.raw = Nil

\* a Vendor-A attempt used the raw body and a later attempt of the run went
\* to a backend of another shape
C28_Witness ==
    \E n, k \in DOMAIN trace :
        /\ n < k
        /\ trace[n].adapter = "callAnthropicRaw"
        /\ trace[k].adapter \in {"callOpenAICompat", "callOllama"}

\* a Vendor-A attempt whose patch failed
C28_PatchFailed ==
    /\ originalRawBody # Nil
    /\ ~originalRawBody[1].valid
    /\ VendorAAttempts # {}

----------------------------------------------------------------------------
(* Claims about the failover record *)

\* the run ended with a 2xx response
Won == pc = "done" /\ ret.err = Nil /\ IsSuccess(ret.resp[1].status)

\* the winning response came from the first model the run attempted: every
\* chain position before it was skipped as not in the catalog
WinnerFirstCalled ==
    Won /\ \A n \in 1..(ret.resp[1].pos - 1) : trace[n].kind = "skipped"

\* C30, as claimed: a failover record is emitted exactly when telemetry is
\* attached and the 2xx response came from a model that was not the first
\* model called; none is emitted when the winner is the first model called.
C30_RecordIffNotFirstCalled ==
    /\ pc # "done" => failoverRecs = <<>>
    /\ pc = "done" =>
          failoverRecs = IF telemetryOn /\ Won /\ ~WinnerFirstCalled
                         THEN <<<<chain[1], ret.model>>>> ELSE <<>>

\* C30, amended: a failover record (from = chain head, to = winning model)
\* is emitted exactly when telemetry is attached and the 2xx response came
\* from a chain position after the head, whether or not an earlier position
\* was called.
C30_RecordIffNotChainHead ==
    /\ pc # "done" => failoverRecs = <<>>
    /\ pc = "done" =>
          failoverRecs = IF telemetryOn /\ Won /\ ret.resp[1].pos > 1
                         THEN <<<<chain[1], ret.model>>>> ELSE <<>>

\* a record was emitted for a winner that followed a failed call
C30_Witness ==
    /\ Won
    /\ ~WinnerFirstCalled
    /\ failoverRecs = <<<<chain[1], ret.model>>>>

\* a record was emitted although the winner was the first model called
C30_SkippedHead ==
    /\ WinnerFirstCalled
    /\ failoverRecs # <<>>

----------------------------------------------------------------------------
(* Claims about the system field of the patched body *)

\* PatchAnthropicRawBody was applied to a JSON object with a non-empty suffix
PatchedWithSuffix ==
    /\ patchOut # Nil
    /\ ~patchOut[1].err
    /\ patchIn.suffix # <<>>

\* C29: for a non-empty suffix the system field is set by its original
\* shape: absent -> the suffix as a string; string s -> s, a blank line and
\* the suffix, or the suffix alone when s is empty; array of blocks -> the
\* same blocks in the same order and one new text block holding a blank line
\* and the suffix; in each of these shapes the result contains the suffix.
C29_SystemByShape ==
    PatchedWithSuffix =>
        LET old == patchIn.rawBody[1].system
            new == patchOut[1].body[1].system
            suf == patchIn.suffix IN
        /\ old.k = "absent" => new = [k |-> "string", s |-> suf, blocks |-> <<>>]
        /\ old.k = "string" =>
              /\ new.k = "string"
              /\ new.s = IF old.s = <<>> THEN suf ELSE old.s \o <<"\n", "\n">> \o suf
        /\ old.k = "array" =>
              /\ new.k = "array"
              /\ Len(new.blocks) = Len(old.blocks) + 1
              /\ \A n \in DOMAIN old.blocks : new.blocks[n] = old.blocks[n]
              /\ new.blocks[Len(new.blocks)] =
                     [type |-> "text", text |-> <<"\n", "\n">> \o suf]
        /\ old.k \in {"absent", "string", "array"} =>
              CountIn(SystemText(new), suf) >= 1

\* a body whose system field is an array of two blocks was patched
C29_Witness ==
    /\ PatchedWithSuffix
    /\ patchIn.rawBody[1].system.k = "array"
    /\ Len(patchOut[1].body[1].system.blocks) = 3

\* a system field that is a number, object or boolean is left as it is,
\* without the suffix
C29_OtherShapeUnchanged ==
    (PatchedWithSuffix /\ patchIn.rawBody[1].system.k = "other") =>
        patchOut[1].body[1].system = patchIn.rawBody[1].system

----------------------------------------------------------------------------
(* Claims about the messages handler *)

\* the one chunk written is the error envelope with this error type
IsEnvelope(w, errorType) ==
    /\ Len(w.body) = 1
    /\ w.body[1].k = "envelope"
    /\ w.body[1].type = "error"
    /\ w.body[1].error.type = errorType
    /\ w.ctype = "application/json"

\* nothing beyond the validation was done for the request
NoWorkDone(q) ==
    /\ q.classification = Nil
    /\ q.decision = Nil
    /\ q.run = NoRun
    /\ q.tel = <<>>

Invalid(in) ==
    \/ in.method # "POST"
    \/ in.body = "malformed"
    \/ in.body = "ok" /\ in.messages = 0

\* C21: a non-POST request is answered with 405, a malformed or
\* message-less one with 400, each as an invalid_request_error envelope, and
\* no classification, routing, backend call or telemetry write is made.
C21_RejectedBeforeAnyWork ==
    \A r \in Requests :
        LET q == served[r] IN
        (q.hpc # "off" /\ Invalid(q.in)) =>
            /\ NoWorkDone(q)
            /\ q.hpc \in {"recv", "exit"}
            /\ q.hpc = "exit" =>
                  /\ q.w.status = IF q.in.method # "POST" THEN 405 ELSE 400
                  /\ IsEnvelope(q.w, "invalid_request_error")

\* a POST with well-formed JSON and no messages has been answered
C21_Witness ==
    \E r \in Requests :
        /\ served[r].hpc = "exit"
        /\ served[r].in.method = "POST"
        /\ served[r].in.body = "ok"
        /\ served[r].in.messages = 0
        /\ served[r].w.status = 400

\* every model the run attempted failed with a transport error or a
\* retryable status
AllAttemptsFailed(run) ==
    /\ run.attempts # <<>>
    /\ \A n \in DOMAIN run.attempts :
          \/ run.attempts[n].kind = "error"
          \/ /\ run.attempts[n].kind = "status"
             /\ ~IsSuccess(run.attempts[n].status)
             /\ isRetryableStatus(run.attempts[n].status)

\* C22: when every candidate failed in a retryable way the handler answers
\* 502 with an api_error envelope whose message contains "exhausted", and
\* writes no stream event.
C22_ExhaustedIs502 ==
    \A r \in Requests :
        LET q == served[r] IN
        (q.hpc = "exit" /\ AllAttemptsFailed(q.run)) =>
            /\ q.w.status = 502
            /\ IsEnvelope(q.w, "api_error")
            /\ \E n \in DOMAIN q.w.body[1].error.message :
                  q.w.body[1].error.message[n] = " chain exhausted"
            /\ \A n \in DOMAIN q.w.body : q.w.body[n].k # "sse"

\* a streaming request whose three candidates all failed has been answered
C22_Witness ==
    \E r \in Requests :
        /\ served[r].hpc = "exit"
        /\ served[r].in.stream
        /\ AllAttemptsFailed(served[r].run)
        /\ Len(served[r].run.attempts) = 3
        /\ \E n \in DOMAIN served[r].run.attempts : served[r].run.attempts[n].kind = "error"
        /\ \E n \in DOMAIN served[r].run.attempts : served[r].run.attempts[n].kind = "status"

\* the engine returned a response with a non-retryable error status
UpstreamError(q) ==
    /\ q.hpc = "exit"
    /\ q.run.ret.err = Nil
    /\ q.run.ret.resp # Nil
    /\ ~IsSuccess(q.run.ret.resp[1].status)

\* C23: a non-retryable upstream error status reaches the client with the
\* same status code and the upstream body unchanged, streaming or not,
\* whatever the backend's shape.
C23_UpstreamErrorVerbatim ==
    \A r \in Requests :
        LET q == served[r] IN
        UpstreamError(q) =>
            /\ q.w.status = q.run.ret.resp[1].status
            /\ q.w.body = <<[k |-> "upstream",
                             of |-> UpstreamBody(q.run.ret.model,
                                                 q.run.ret.resp[1].status)]>>

\* the part of C23 that the non-streaming Vendor-A path keeps: the body
C23_VendorABodyKept ==
    \A r \in Requests :
        LET q == served[r] IN
        (UpstreamError(q) /\ ~q.in.stream
            /\ LookupModel(cfg, q.run.ret.model).Provider = "anthropic") =>
            /\ q.w.status = 200
            /\ q.w.body = <<[k |-> "upstream",
                             of |-> UpstreamBody(q.run.ret.model,
                                                 q.run.ret.resp[1].status)]>>

\* the backend calls of a run that went out to Vendor-A
SentToVendorA(run) ==
    {n \in DOMAIN run.attempts :
        /\ run.attempts[n].kind \in {"error", "status"}
        /\ run.attempts[n].adapter \in {"callAnthropicRaw", "callAnthropic"}}

\* C26: the outbound request to a Vendor-A backend carries the credentials
\* of the inbound request, the key header and the Authorization header.
C26_InboundCredentialsForwarded ==
    \A r \in Requests :
        \A n \in SentToVendorA(served[r].run) :
            /\ served[r].run.attempts[n].headers.XApiKey = served[r].in.key
            /\ served[r].run.attempts[n].headers.Authorization = served[r].in.auth

\* what the adapters do instead: the key is the process's own, and the
\* headers the handler captured go nowhere
C26_EnvironmentKeySent ==
    \A r \in Requests :
        \A n \in SentToVendorA(served[r].run) :
            /\ served[r].run.attempts[n].headers.XApiKey = Ptr(resolveAPIKey("anthropic"))
            /\ served[r].run.attempts[n].headers.Authorization = Nil

----------------------------------------------------------------------------
(* Claims about telemetry failures and about concurrent requests *)

TelemetryFailed(q) == \E n \in DOMAIN q.tel : ~q.tel[n].ok

\* C24: the status and body written for a request do not depend on whether
\* its telemetry writes succeed: two requests with the same input and the
\* same routing decision get the same attempts and the same response
\* whatever their telemetry writes did, and a 2xx from a backend is never
\* answered as an error because a telemetry write failed.
C24_TelemetryNeverChangesResponse ==
    /\ \A r1, r2 \in Requests :
          (/\ served[r1].in = served[r2].in
           /\ served[r1].decision = served[r2].decision
           /\ served[r1].hpc = "exit"
           /\ served[r2].hpc = "exit") =>
              /\ served[r1].w = served[r2].w
              /\ served[r1].run.attempts = served[r2].run.attempts
    /\ \A r \in Requests :
          (/\ served[r].hpc \in {"respond", "exit"}
           /\ TelemetryFailed(served[r])
           /\ \E n \in DOMAIN served[r].run.attempts :
                 IsSuccess(served[r].run.attempts[n].status)) =>
              /\ served[r].run.ret.err = Nil
              /\ served[r].hpc = "exit" => served[r].w.status = 200

\* two requests with the same input were answered 200 after a failover; both
\* telemetry writes of the first failed, both of the second succeeded
C24_Witness ==
    /\ served[1].in = served[2].in
    /\ served[1].decision = served[2].decision
    /\ served[1].hpc = "exit"
    /\ served[2].hpc = "exit"
    /\ served[1].tel = <<[kind |-> "failover", ok |-> FALSE],
                         [kind |-> "routing", ok |-> FALSE]>>
    /\ served[2].tel = <<[kind |-> "failover", ok |-> TRUE],
                         [kind |-> "routing", ok |-> TRUE]>>
    /\ served[1].w.status = 200

\* what a request gets when it is handled alone
SoloClassifications(in) ==
    {Classify(cfg, in.prompt, in.header, hdrOrder, patOrder, taskOrder) :
        hdrOrder \in Perms(DOMAIN cfg.RouteClasses),
        patOrder \in Perms(DOMAIN cfg.RouteClasses),
        taskOrder \in Perms(TaskPatternNames(cfg))}

SoloDecisions(cl) ==
    {Route(cfg, cl, modelOrder, tierOrder) :
        modelOrder \in Perms(DOMAIN cfg.Models), tierOrder \in Perms(DOMAIN cfg.Tiers)}

RECURSIVE RunToEnd(_, _)
RunToEnd(run, q) ==
    IF run.pc = "done" THEN run
    ELSE RunToEnd(RunStep(cfg, telemetryOn, q.decision[1], run, q.in.answers, TRUE), q)

SoloRun(q) ==
    RunToEnd(RunInit(cfg, q.decision[1], BuildProviderRequest(cfg, q.in, q.decision[1])), q)

SoloWriter(q) ==
    IF Reject(q.in) # Nil
    THEN sendError(NewWriter, "invalid_request_error", Reject(q.in)[1].message,
                   Reject(q.in)[1].status)
    ELSE IF SoloRun(q).ret.err # Nil
    THEN FailoverError(NewWriter, SoloRun(q).ret.err[1])
    ELSE WriteResponse(NewWriter, cfg, q.in.stream, SoloRun(q).ret)

AsAlone(q) ==
    /\ q.classification # Nil => q.classification[1] \in SoloClassifications(q.in)
    /\ q.decision # Nil => q.decision[1] \in SoloDecisions(q.classification[1])
    /\ q.hpc = "loop" => IsPrefix(q.run.attempts, SoloRun(q).attempts)
    /\ q.hpc \in {"respond", "exit"} /\ q.decision # Nil =>
          /\ q.run.attempts = SoloRun(q).attempts
          /\ q.run.ret = SoloRun(q).ret
    /\ q.hpc = "exit" => q.w = SoloWriter(q)

\* C25: however the steps of two requests interleave, the configuration
\* (from which the compiled patterns are derived) is never modified, and each
\* request's classification, decision, attempts and response are those it
\* has when handled alone.
C25_ConcurrentRequestsIndependent ==
    /\ [](\A r \in Requests : AsAlone(served[r]))
    /\ [][cfg' = cfg /\ telemetryOn' = telemetryOn]_vars

\* both requests are inside their failover loops, on different chains, each
\* with an attempt behind it
C25_Witness ==
    /\ served[1].hpc = "loop"
    /\ served[2].hpc = "loop"
    /\ served[1].run.chain # served[2].run.chain
    /\ served[1].run.attempts # <<>>
    /\ served[2].run.attempts # <<>>
    /\ served[1].run.pc = "loop"
    /\ served[2].run.pc = "loop"

----------------------------------------------------------------------------
(* Claims about the Ollama translation and the token count *)

\* a line that json.Unmarshal takes as an Ollama object
IsOllamaObject(l) == l.pre = "" /\ l.body = "json" /\ ~l.typeErr

\* the non-empty contents of the upstream objects up to and including the
\* first object with done = true
RECURSIVE ContentsThroughDone(_)
ContentsThroughDone(lines) ==
    IF lines = <<>> THEN <<>>
    ELSE LET l == Head(lines) IN
         (IF IsOllamaObject(l) /\ l.content # "" THEN <<l.content>> ELSE <<>>)
             \o (IF IsOllamaObject(l) /\ l.done THEN <<>>
                 ELSE ContentsThroughDone(Tail(lines)))

\* the non-empty contents of the upstream objects ahead of the first object
\* with done = true
RECURSIVE ContentsBeforeDone(_)
ContentsBeforeDone(lines) ==
    IF lines = <<>> THEN <<>>
    ELSE LET l == Head(lines) IN
         IF IsOllamaObject(l) /\ l.done THEN <<>>
         ELSE (IF IsOllamaObject(l) /\ l.content # "" THEN <<l.content>> ELSE <<>>)
                  \o ContentsBeforeDone(Tail(lines))

OllamaReturned == spc = "done" /\ translator = "StreamOllamaToAnthropic"

\* C31: the deltas StreamOllamaToAnthropic wrote are, in upstream order, the
\* non-empty message.content of every upstream object up to and including
\* the object with done = true, one delta each, and none of a later object.
C31_DeltasThroughDone ==
    OllamaReturned => DeltaTexts(out) = ContentsThroughDone(upstream)

\* C31, what the loop does for upstreams within the scanner's limit: the
\* done object ends the loop before its own content is looked at.
C31_DeltasBeforeDone ==
    (OllamaReturned /\ WithinScannerLimit) =>
        DeltaTexts(out) = ContentsBeforeDone(upstream)

\* C31, the done object's content is the only loss within the scanner's
\* limit: with an empty content in the done object the claim holds.
C31_EmptyDoneObject ==
    (OllamaReturned /\ WithinScannerLimit
        /\ \A k \in 1..Len(upstream) :
              (IsOllamaObject(upstream[k]) /\ upstream[k].done) =>
                  upstream[k].content = "") =>
        DeltaTexts(out) = ContentsThroughDone(upstream)

\* the positions of the upstream objects with done = true
DoneObjects(lines) == {k \in 1..Len(lines) : IsOllamaObject(lines[k]) /\ lines[k].done}

\* eval_count of the first upstream object with done = true, 0 without one
FirstEvalCount(lines) ==
    IF DoneObjects(lines) = {} THEN 0
    ELSE lines[CHOOSE k \in DoneObjects(lines) :
                   \A j \in DoneObjects(lines) : k <= j].eval

\* output_tokens of the message_delta events written
MessageDeltaTokens(o) ==
    LET ds == SelectSeq(o, LAMBDA it : it.name = "message_delta")
    IN  [k \in 1..Len(ds) |-> ds[k].tokens]

\* C32: the message_delta of StreamOllamaToAnthropic carries the eval_count
\* of the first upstream object with done = true, and 0 when the upstream
\* ends without one; that of StreamOpenAIToAnthropic always carries 0.
C32_OutputTokens ==
    spc = "done" =>
        /\ translator = "StreamOllamaToAnthropic" =>
              MessageDeltaTokens(out) = <<FirstEvalCount(upstream)>>
        /\ translator = "StreamOpenAIToAnthropic" =>
              MessageDeltaTokens(out) = <<0>>

\* C32, for upstreams within the scanner's limit: what holds of the code
\* when the over-long line is left out.
C32_WithinScannerLimit == WithinScannerLimit => C32_OutputTokens

\* C32, the over-long line ahead of the done object: 0 is reported for an
\* upstream whose done object carries 42.
C32_LostCount ==
    /\ OllamaReturned
    /\ upstream = <<ObjLong, Obj("", TRUE, 42)>>
    /\ MessageDeltaTokens(out) = <<0>>

----------------------------------------------------------------------------
(* Claims about the task type, the tier and the latency budget *)

\* the configured tasks with the highest hit count, when some pattern hit
TopTasks(c, text) ==
    {n \in DOMAIN c.Tasks :
        /\ HitCount(c, n, text) > 0
        /\ \A m \in DOMAIN c.Tasks : HitCount(c, m, text) <= HitCount(c, n, text)}

\* the task names of the inputs in ascending order
TaskNamesSorted == <<"chat", "code", "summarization">>

\* the least name of a non-empty set of task names
LeastName(S) ==
    TaskNamesSorted[CHOOSE k \in 1..Len(TaskNamesSorted) :
                        /\ TaskNamesSorted[k] \in S
                        /\ \A j \in 1..(k - 1) : TaskNamesSorted[j] \notin S]

\* C33: when several tasks have the same highest number of pattern hits,
\* every Classify call returns the same task, the first of them by name.
C33_TieByName ==
    Cardinality(TopTasks(cfg, prompt)) > 1 =>
        \A k \in 1..Len(classifications) :
            classifications[k].TaskType = LeastName(TopTasks(cfg, prompt))

\* C33, the part about repeated calls alone: with a tie, all calls return
\* the same task.
C33_SameTaskOnTie ==
    Cardinality(TopTasks(cfg, prompt)) > 1 =>
        \A j, k \in 1..Len(classifications) :
            classifications[j].TaskType = classifications[k].TaskType

\* without a tie the task type does not depend on the order of the range
C33_StableWithoutTie ==
    Cardinality(TopTasks(cfg, prompt)) <= 1 =>
        \A j, k \in 1..Len(classifications) :
            classifications[j].TaskType = classifications[k].TaskType

\* two calls on a prompt that hits two tasks once each returned two tasks
C33_TwoAnswers ==
    /\ Len(classifications) = 2
    /\ TopTasks(cfg, prompt) = {"code", "summarization"}
    /\ classifications[1].TaskType = "code"
    /\ classifications[2].TaskType = "summarization"

\* C34: Classify returns a task whose hit count is maximal over the
\* configured tasks, with confidence 0.70 for one hit and 0.85 for two or
\* more and with that task's required strengths; with no hit in any task it
\* returns chat with confidence 0.5 and no required strengths.
C34_TaskTypeAndConfidence ==
    \A k \in 1..Len(classifications) :
        LET r == classifications[k] IN
        IF TaskMatched(cfg, prompt)
        THEN /\ r.TaskType \in TopTasks(cfg, prompt)
             /\ r.Confidence = IF HitCount(cfg, r.TaskType, prompt) = 1 THEN 70 ELSE 85
             /\ r.RequiredStrengths = cfg.Tasks[r.TaskType].RequiredStrengths
        ELSE /\ r.TaskType = "chat"
             /\ r.Confidence = 50
             /\ r.RequiredStrengths = {}

\* C34 witness: a prompt with two hits in one task and one in another was
\* classified as the first, with confidence 0.85
C34_Witness ==
    /\ Len(classifications) = MaxCalls
    /\ HitCount(cfg, "code", prompt) = 2
    /\ HitCount(cfg, "summarization", prompt) = 1
    /\ classifications[1].TaskType = "code"
    /\ classifications[1].Confidence = 85
    /\ classifications[1].RequiredStrengths = {"code"}

\* C35: in every Classification, tier and latency_budget_ms are the default
\* tier and the latency budget the configuration gives for the returned
\* route class, the default interactive included.
C35_TierAndLatencyOfClass ==
    \A k \in 1..Len(classifications) :
        LET r == classifications[k] IN
        r.RouteClass \in DOMAIN cfg.RouteClasses =>
            /\ r.Tier = cfg.RouteClasses[r.RouteClass].DefaultTier
            /\ r.LatencyBudgetMs = cfg.RouteClasses[r.RouteClass].LatencyBudgetMs

\* C35 witness: with no header and no content pattern matched the class is
\* the configured interactive, and tier and budget are that class's
C35_Witness ==
    /\ Len(classifications) > 0
    /\ reqHeaders = Nil
    /\ ContentClasses(cfg, prompt) = {}
    /\ "interactive" \in DOMAIN cfg.RouteClasses
    /\ classifications[1].RouteClass = "interactive"
    /\ classifications[1].Tier = "premium"
    /\ classifications[1].LatencyBudgetMs = 2000

\* the default class of a configuration that does not define interactive:
\* the zero value of the map lookup, an empty tier and a budget of 0
C35_UnconfiguredDefault ==
    \A k \in 1..Len(classifications) :
        LET r == classifications[k] IN
        r.RouteClass \notin DOMAIN cfg.RouteClasses =>
            /\ r.RouteClass = "interactive"
            /\ r.Tier = ""
            /\ r.LatencyBudgetMs = 0

----------------------------------------------------------------------------
(* Claims about the empty prompt and about patterns that do not compile *)

\* a pattern that is a regular expression
IsRegexp(p) == p # "("

\* a pattern that matches the empty string
MatchesEmpty(p) == p = ".*"

\* a pattern that is a regular expression and matches the text
Hits(p, text) ==
    /\ IsRegexp(p)
    /\ \/ MatchesEmpty(p)
       \/ \E k \in 1..Len(text) : Lower(text[k]) = Lower(p)

\* the positions of the patterns of a list that hit the text
HitPositions(patterns, text) == {k \in 1..Len(patterns) : Hits(patterns[k], text)}

\* the classes a content pattern of which hits the text
HitClasses(c, text) ==
    {n \in DOMAIN c.RouteClasses :
        HitPositions(c.RouteClasses[n].ContentPatterns, text) # {}}

TaskHits(c, n, text) == Cardinality(HitPositions(c.Tasks[n].Patterns, text))

\* a configuration with a pattern that is not a regular expression
HasInvalidPattern(c) ==
    \/ \E n \in DOMAIN c.RouteClasses :
          \E k \in 1..Len(c.RouteClasses[n].ContentPatterns) :
              ~IsRegexp(c.RouteClasses[n].ContentPatterns[k])
    \/ \E n \in DOMAIN c.Tasks :
          \E k \in 1..Len(c.Tasks[n].Patterns) : ~IsRegexp(c.Tasks[n].Patterns[k])

\* a configuration none of whose patterns matches the empty string
NoCatchAll(c) ==
    /\ \A n \in DOMAIN c.RouteClasses :
          \A k \in 1..Len(c.RouteClasses[n].ContentPatterns) :
              ~MatchesEmpty(c.RouteClasses[n].ContentPatterns[k])
    /\ \A n \in DOMAIN c.Tasks :
          \A k \in 1..Len(c.Tasks[n].Patterns) : ~MatchesEmpty(c.Tasks[n].Patterns[k])

EmptyPromptDefaults ==
    \A k \in 1..Len(classifications) :
        /\ classifications[k].RouteClass = "interactive"
        /\ classifications[k].TaskType = "chat"
        /\ classifications[k].Confidence = 50

\* every pattern that is a regular expression is in effect, whatever other
\* patterns stand next to it: without a header the class is one with a
\* content pattern that hits, the task one with the most hits
ValidPatternsInEffect ==
    reqHeaders = Nil =>
        \A k \in 1..Len(classifications) :
            LET r == classifications[k] IN
            /\ IF HitClasses(cfg, prompt) = {} THEN r.RouteClass = "interactive"
               ELSE r.RouteClass \in HitClasses(cfg, prompt)
            /\ IF \A n \in DOMAIN cfg.Tasks : TaskHits(cfg, n, prompt) = 0
               THEN r.TaskType = "chat" /\ r.Confidence = 50
               ELSE /\ r.TaskType \in DOMAIN cfg.Tasks
                    /\ \A n \in DOMAIN cfg.Tasks :
                          TaskHits(cfg, n, prompt) <= TaskHits(cfg, r.TaskType, prompt)
                    /\ r.Confidence =
                          IF TaskHits(cfg, r.TaskType, prompt) = 1 THEN 70 ELSE 85

\* C36 as stated: for any configuration the empty prompt without headers is
\* classified interactive, chat, 0.5; a pattern that is not a regular
\* expression is skipped and the other patterns stay in effect.
C36_EmptyPromptAnyConfig ==
    /\ (prompt = <<>> /\ reqHeaders = Nil) => EmptyPromptDefaults
    /\ ValidPatternsInEffect

\* C36 as amended: the empty prompt without headers is classified
\* interactive, chat, 0.5 for any configuration none of whose patterns
\* matches the empty string; a pattern that is not a regular expression is
\* skipped and the other patterns stay in effect.
C36_EmptyPromptNoCatchAll ==
    /\ (prompt = <<>> /\ reqHeaders = Nil /\ NoCatchAll(cfg)) => EmptyPromptDefaults
    /\ ValidPatternsInEffect

\* C36 witness: the empty prompt was classified under a configuration with
\* patterns that do not compile and none that matches the empty string
C36_Witness ==
    /\ prompt = <<>>
    /\ reqHeaders = Nil
    /\ NoCatchAll(cfg)
    /\ HasInvalidPattern(cfg)
    /\ Len(classifications) = MaxCalls
    /\ classifications[1].RouteClass = "interactive"
    /\ classifications[1].TaskType = "chat"

\* a pattern after one that does not compile decided class and task
C36_AfterInvalid ==
    /\ prompt = <<"batch">>
    /\ cfg.RouteClasses = RouteClasses2
    /\ Len(classifications) > 0
    /\ classifications[1].RouteClass = "compaction"
    /\ classifications[1].TaskType = "code"

\* the empty prompt under a configuration with a pattern that matches
\* every prompt: background and code, not interactive and chat
C36_CatchAll ==
    /\ prompt = <<>>
    /\ cfg = [RouteClasses |-> RouteClassesCatchAll, Tasks |-> TasksCatchAll]
    /\ Len(classifications) > 0
    /\ classifications[1].RouteClass = "background"
    /\ classifications[1].TaskType = "code"
    /\ classifications[1].Confidence = 70

----------------------------------------------------------------------------
(* Claims about the decision's tier and score *)

\* the tiers that list the model
TiersOf(c, n) == {t \in DOMAIN c.Tiers : n \in Range(c.Tiers[t])}

\* the order in which the configuration file lists the tiers
ConfiguredTiers == <<"premium", "budget">>

\* the first configured tier that lists the model, premium when none does
FirstTierOf(c, n) ==
    IF TiersOf(c, n) = {} THEN "premium"
    ELSE ConfiguredTiers[CHOOSE k \in 1..Len(ConfiguredTiers) :
                             /\ ConfiguredTiers[k] \in TiersOf(c, n)
                             /\ \A j \in 1..(k - 1) :
                                   ConfiguredTiers[j] \notin TiersOf(c, n)]

\* C37: when a model was selected by scoring, the decision's tier is the
\* first configured tier containing it, premium when no tier contains it,
\* and repeated Route calls on the same classification return the same tier
\* also for a model listed in more than one tier.
C37_FirstTierStable ==
    Qualified # {} =>
        /\ \A k \in 1..Len(decisions) :
              decisions[k].Tier = FirstTierOf(cfg, decisions[k].Model)
        /\ \A j, k \in 1..Len(decisions) : decisions[j].Tier = decisions[k].Tier

\* C37, the part about repeated calls alone
C37_SameTier ==
    Qualified # {} =>
        \A j, k \in 1..Len(decisions) : decisions[j].Tier = decisions[k].Tier

\* what the range over the tiers leaves: some tier that lists the selected
\* model, premium when none does, and the claim as stated for a model that
\* at most one tier lists
C37_SomeTierOfModel ==
    Qualified # {} =>
        \A k \in 1..Len(decisions) :
            LET d == decisions[k] IN
            /\ TiersOf(cfg, d.Model) # {} => d.Tier \in TiersOf(cfg, d.Model)
            /\ TiersOf(cfg, d.Model) = {} => d.Tier = "premium"
            /\ Cardinality(TiersOf(cfg, d.Model)) <= 1 =>
                  d.Tier = FirstTierOf(cfg, d.Model)

\* two calls selected the model of two tiers and returned two tiers
C37_TwoTiers ==
    /\ Len(decisions) = 2
    /\ decisions[1].Model = "b"
    /\ decisions[2].Model = "b"
    /\ decisions[1].Tier = "premium"
    /\ decisions[2].Tier = "budget"


\* the highest cost of all configured models, 1 when that is 0
HighestCost(c) ==
    LET over == {x \in 0..4 : \A n \in DOMAIN c.Models : c.Models[n].CostPer1kTok <= x}
        top == CHOOSE x \in over : \A y \in over : x <= y
    IN  IF top = 0 THEN 1 ELSE top

\* cost_weight * (1 - cost/max_cost) + quality_weight * quality_ceiling, in
\* hundredths of a weight unit
ClaimedScore(c, n) ==
    LET m == c.Models[n] IN
    (c.CostWeight * (100 * HighestCost(c) - 100 * m.CostPer1kTok)) \div HighestCost(c)
        + c.QualityWeight * m.QualityCeiling

\* selected model and alternatives with their scores
Scored(d) ==
    {<<d.Model, d.Score>>}
        \cup {<<d.Alternatives[k].Model, d.Alternatives[k].Score>> :
                 k \in 1..Len(d.Alternatives)}

\* C38: the score of every qualifying candidate is cost_weight *
\* (1 - cost/max_cost) + quality_weight * quality_ceiling with max_cost the
\* highest cost of all configured models, 1 when that is 0, and lies
\* between 0 and cost_weight + quality_weight.
C38_ScoreShape ==
    Qualified # {} =>
        \A k \in 1..Len(decisions) :
            \A p \in Scored(decisions[k]) :
                /\ p[2] = ClaimedScore(cfg, p[1])
                /\ 0 <= p[2]
                /\ p[2] <= (cfg.CostWeight + cfg.QualityWeight) * 100

\* C38 witness: the one model that qualifies is cheaper than a configured
\* model that does not, and it was scored against that model's cost
C38_Witness ==
    /\ Len(decisions) > 0
    /\ Qualified = {"b"}
    /\ "a" \in DOMAIN cfg.Models
    /\ cfg.CostWeight = 6
    /\ cfg.QualityWeight = 4
    /\ decisions[1].Score = 6 * 50 + 4 * 80

\* a catalog whose highest cost is 0: max_cost is taken as 1 and the cost
\* term is the whole cost weight
C38_AllFree ==
    /\ Len(decisions) > 0
    /\ DOMAIN cfg.Models = {"d"}
    /\ Qualified = {"d"}
    /\ cfg.CostWeight = 6
    /\ decisions[1].Score = 6 * 100 + cfg.QualityWeight * 50

----------------------------------------------------------------------------
(* Claims about the telemetry of a failover *)

\* request r is over and was answered with the response of a model other
\* than the head of its chain, and every telemetry write it made succeeded
ServedAfterFailover(r) ==
    LET q == served[r] IN
    /\ telemetryOn
    /\ q.hpc = "exit"
    /\ q.run.pc = "done"
    /\ q.run.ret.err = Nil
    /\ q.run.ret.model # q.run.chain[1]
    /\ ~TelemetryFailed(q)

\* C39: after a request that was served by a model other than the chain
\* head, the store holds a routing event of that request whose
\* failover_from is the chain head, and GetStats counts it as a failover.
C39_FailoverCounted ==
    \A r \in Requests :
        ServedAfterFailover(r) =>
            /\ \E row \in events :
                  /\ row.id = EventID(r)
                  /\ row.failover_from = Ptr(served[r].run.chain[1])
            /\ GetStats(events).FailoverCount >= 1

\* what the store does hold after such a request: its routing event with
\* the model that served it and no failover_from
C39_EventWithoutFailover ==
    \A r \in Requests :
        ServedAfterFailover(r) =>
            \E row \in events :
                /\ row.id = EventID(r)
                /\ row.selected_model = served[r].run.ret.model
                /\ row.failover_from = Nil

\* no failover is ever counted, and no event has the id the engine writes to
C39_NeverCounted ==
    /\ GetStats(events).FailoverCount = 0
    /\ \A row \in events : row.id # EmptyID

\* a request was served by the second model of its chain, the engine's
\* RecordFailover succeeded, and the count of failovers is 0
C39_LostFailover ==
    /\ ServedAfterFailover(1)
    /\ served[1].run.recs = <<<<"a", "b">>>>
    /\ served[1].tel = <<[kind |-> "failover", ok |-> TRUE],
                         [kind |-> "routing", ok |-> TRUE]>>
    /\ GetStats(events).TotalRequests = 1
    /\ GetStats(events).FailoverCount = 0

----------------------------------------------------------------------------
(* Claims about the system prompt on the normalised path *)

\* the attempts of request r that called a backend with the normalised
\* request, the raw body being nil
NormalisedAttempts(r) ==
    {n \in DOMAIN served[r].run.attempts :
        /\ served[r].run.attempts[n].kind \in {"status", "error"}
        /\ served[r].run.attempts[n].raw = Nil}

\* C40: on the normalised path the system prompt of every attempt, the first
\* included, contains the suffix of the attempt's model exactly once.
C40_SuffixExactlyOnce ==
    \A r \in Requests :
        \A n \in NormalisedAttempts(r) :
            LET e == served[r].run.attempts[n]
                suf == getModelSuffix(cfg, e.model) IN
            suf # <<>> => CountIn(e.system, suf) = 1

\* what the two injections leave: the suffix of the attempt's model is at
\* the end of the system prompt, after the client's own prompt
C40_SuffixAtLeastOnce ==
    \A r \in Requests :
        \A n \in NormalisedAttempts(r) :
            LET e == served[r].run.attempts[n]
                suf == getModelSuffix(cfg, e.model) IN
            suf # <<>> =>
                /\ CountIn(e.system, suf) >= 1
                /\ SubSeq(e.system, Len(e.system) - Len(suf) + 1, Len(e.system)) = suf
                /\ SubSeq(e.system, 1, 1) = <<"p">>

\* the first attempt of a request went to the selected model, which has
\* the suffix y, with the system prompt p, y, y
C40_SuffixTwice ==
    /\ served[1].run.attempts # <<>>
    /\ served[1].run.attempts[1].model = "b"
    /\ served[1].decision[1].Model = "b"
    /\ 1 \in NormalisedAttempts(1)
    /\ served[1].run.attempts[1].system = <<"p">> \o Sep \o <<"y">> \o Sep \o <<"y">>

====
